---- MODULE Spec2Model ----
(***************************************************************************)
(* Agent Terminal: the session registry (server.py, SessionManager), the   *)
(* connection handler (server.py terminal_websocket and terminal.py        *)
(* handle_terminal_websocket) and the process session (terminal.py,        *)
(* TerminalSession), as asyncio tasks on one event loop.                   *)
(*                                                                         *)
(* A task runs without interruption from one suspension to the next, so    *)
(* every action below is the code a task executes between two awaits.      *)
(* The code segments are operators from a state record to a state record   *)
(* (Cur builds the record, Commit assigns it), so that code which runs on  *)
(* without suspending is the composition of its segments.                  *)
(*                                                                         *)
(* Modelled apart from the handlers: the command line that start() builds  *)
(* (SpecCommand), and one terminal of the browser page with its sockets,   *)
(* timers, health check and reconnect button (SpecRetry, SpecManual,       *)
(* SpecConflict).                                                          *)
(*                                                                         *)
(* Environment: a send on a transport raises exactly when the client has   *)
(* closed it; pty.terminate and os.remove succeed. What the clients and    *)
(* the processes do over a run is bounded by lim, which every              *)
(* specification fixes in its initial state.                               *)
(***************************************************************************)
EXTENDS Integers, Sequences, FiniteSets, TLC

\* ------------------------------------------------------------------ bounds
\* Spec: the handlers with every kind of event
MaxConns == 2      \* connections the clients open over a run
MaxCloses == 1     \* transports the clients close over a run
MaxReads == 1      \* chunks the processes produce over a run
MaxFiles == 1      \* image messages the clients send over a run
MaxWrites == 1     \* executor writes in flight at a time
MaxExits == 1      \* processes that exit by themselves over a run
MaxSpawnFails == 1 \* spawns that fail over a run
\* SpecRace: connections racing for one identifier
RaceConns == 3
RaceCloses == 1
\* SpecStop: sessions stopped more than once
StopConns == 2
StopCloses == 1
StopFiles == 1
StopExits == 1
\* SpecLife: the life of session objects: spawn, output, exit, stop, replace
LifeConns == 2
LifeCloses == 1
LifeReads == 1
LifeExits == 1
LifeSpawnFails == 1
\* SpecCleanup: cleanup_all_sessions among the handlers
CleanConns == 2
CleanCloses == 1
\* SpecImage: image messages to sessions of agents with and without an
\* add-image command
ImageConns == 1
ImageCloses == 1
ImageFiles == 1
ImageExits == 1
\* SpecResize: resize messages to a session
ResizeConns == 1
ResizeCloses == 1
ResizeExits == 1
\* SpecRead: the read loop of a session, suspension by suspension
ReadConns == 1
ReadCloses == 1
ReadChunks == 3    \* chunks the process produces over a run
ReadExits == 1
\* SpecPing: ping messages to a session
PingConns == 2
PingCloses == 1
PingReads == 1
PingExits == 1
\* SpecHint: the end of the read loop of sessions that are replaced
HintConns == 2
HintCloses == 1
HintChunks == 1    \* chunks a process produces over a run
HintExits == 1
\* SpecDispose: one terminal of the page that is removed at some point
DisposeSocks == 2  \* sockets the terminal creates over a run
DisposeMsgs == 1   \* output chunks the terminal receives over a run
\* SpecBus: the registry's broadcast and send_direct among the handlers
BusConns == 2
BusCloses == 1
\* SpecRegistry: the registry under handlers that all come to their end
RegistryConns == 2
RegistryCloses == 2
\* SpecRetry: one terminal of the page, its connections and its timers
RetrySocks == 5    \* sockets the terminal creates over a run
\* SpecManual: one terminal of the page and its reconnect button
ManualSocks == 8   \* sockets the terminal creates over a run
\* SpecConflict: one terminal of the page and the output it receives
ConflictSocks == 2 \* sockets the terminal creates over a run
ConflictMsgs == 2  \* output chunks the terminal receives over a run

\* SpecStable: one terminal of the page, a session conflict and the
\* connections after it
StableSocks == 3   \* sockets the terminal creates over a run
StableMsgs == 1    \* output chunks the terminal receives over a run

\* SpecBuffer: one terminal of the page and its rolling buffer
BufferSocks == 1   \* sockets the terminal creates over a run
BufferMsgs == 3    \* output chunks the terminal receives over a run

\* SpecLarge: one terminal of the page and large output chunks
LargeSocks == 2    \* sockets the terminal creates over a run
LargeMsgs == 2     \* output chunks the terminal receives over a run

Max(a, b) == IF a >= b THEN a ELSE b

\* connection c: its transport and its handler task; the TerminalSession
\* that handler c creates is session c
Conns == 1..Max(Max(Max(MaxConns, BusConns), Max(RaceConns, StopConns)),
               Max(Max(LifeConns, CleanConns), ImageConns))
NoConn == 0

\* session identifiers, in the order the clients first use them
Ids == <<"X", "Y", "Z">>
\* the index parameter of a request
Indices == {0, 1}
AgentKinds == {"claude", "shell"}
Roles == {"General", "Dev"}

\* ------------------------------------------------------- static tables
\* AGENT_CONFIGS[agent]["add_image_cmd"] is set
add_image_cmd(agent) == agent \in {"claude", "gemini", "gemini-thinking"}

\* server.py PERSONAS: the roles that get the "Injecting Persona" notice
PERSONAS == {"PM", "Dev", "QA"}

WINPTY_AVAILABLE == TRUE

\* AGENT_CONFIGS.get(agent_type, AGENT_CONFIGS["claude"])
ConfigKeys == {"claude", "gemini", "gemini-thinking", "codex", "opencode",
               "shell"}
config(agent_type) == IF agent_type \in ConfigKeys THEN agent_type ELSE "claude"

\* config.get("session_cmd") and config.get("system_prompt_cmd") are set
session_cmd(agent_type) == config(agent_type) = "claude"
system_prompt_cmd(agent_type) == config(agent_type) = "claude"

\* ---------------------------------------------- the command line of start
\* A session identifier is the text head, groups joined by "-", tail:
\* lens, the lengths of the groups; hex, the groups are hexadecimal digits;
\* ver, the first character of the third group; var, the first character
\* of the fourth group.
Uuid4Lens == <<8, 4, 4, 4, 12>>
LF == "LF"

\* the empty string
EmptyId == [head |-> "", lens |-> <<>>, hex |-> FALSE, ver |-> "",
            var |-> "", tail |-> ""]
IsEmpty(s) == s.lens = <<>> /\ s.head = "" /\ s.tail = ""

\* re.match(pattern, s, re.IGNORECASE) of _is_valid_uuid: the pattern is
\* anchored by ^ and $, and $ also matches before a newline that ends s
MatchesPattern(s) ==
    /\ s.head = ""
    /\ s.lens = Uuid4Lens
    /\ s.hex
    /\ s.ver = "4"
    /\ s.var \in {"8", "9", "a", "b", "A", "B"}
    /\ s.tail \in {"", LF}

\* TerminalSession._is_valid_uuid
is_valid_uuid(s) == ~IsEmpty(s) /\ MatchesPattern(s)

\* A prompt is None or a string, a sequence of characters: "a" and "b" for
\* ordinary ones, DQ the double quote, LF, CR, SP, BS the backslash, and the
\* characters of dangerous_chars
None == [str |-> FALSE, text |-> <<>>]
Str(t) == [str |-> TRUE, text |-> t]

\* bool(p) of a prompt
Truthy(p) == p.str /\ p.text # <<>>
dangerous_chars == {"BACKTICK", "DOLLAR", "PIPE", "SEMICOLON", "AMPERSAND",
                    "GT", "LT", "NUL"}
dangerous_few == dangerous_chars \ {"BACKTICK"}

\* any(char in role_prompt for char in dangerous_chars)
AnyDangerousOf(p, chars) == \E i \in 1..Len(p.text) : p.text[i] \in chars

\* the three replace() calls on role_prompt: a double quote gets a backslash
\* before it, a newline becomes a blank, a carriage return is dropped
RECURSIVE escaped_prompt(_)
escaped_prompt(p) ==
    IF p = <<>> THEN <<>>
    ELSE (CASE Head(p) = "DQ" -> <<"BS", "DQ">>
            [] Head(p) = "LF" -> <<"SP">>
            [] Head(p) = "CR" -> <<>>
            [] OTHER -> <<Head(p)>>) \o escaped_prompt(Tail(p))

\* ROLE_PROMPTS.get(role), the table holding prompt pm for "PM"
ROLE_PROMPTS(pm, role) == IF role = "PM" THEN pm ELSE None

\* the parts start() joins into cmd, in order
CommandPart(agent_type) == [part |-> "command", arg |-> config(agent_type)]
SessionPart(session_id) == [part |-> "session_cmd", arg |-> session_id]
PromptPart(p) ==
    [part |-> "system_prompt_cmd", arg |-> escaped_prompt(p.text)]

\* start(), "Build command with session support"
WithSession(cmd, agent_type, session_id) ==
    IF session_cmd(agent_type) /\ ~IsEmpty(session_id)
       /\ is_valid_uuid(session_id)
    THEN Append(cmd, SessionPart(session_id))
    ELSE cmd

\* start(), "Add role-based system prompt"
WithPromptOf(cmd, agent_type, role_prompt, chars) ==
    IF system_prompt_cmd(agent_type) /\ Truthy(role_prompt)
    THEN IF AnyDangerousOf(role_prompt, chars) THEN cmd
         ELSE Append(cmd, PromptPart(role_prompt))
    ELSE cmd

WithPromptFew(cmd, agent_type, role_prompt) ==
    WithPromptOf(cmd, agent_type, role_prompt, dangerous_few)

WithPrompt(cmd, agent_type, role_prompt) ==
    WithPromptOf(cmd, agent_type, role_prompt, dangerous_chars)

BuildCommand(session_id, agent_type, role_prompt) ==
    WithPrompt(WithSession(<<CommandPart(agent_type)>>, agent_type,
                           session_id),
               agent_type, role_prompt)

\* ------------------------------------------------------- Python dict
\* A dict is its entry array: insertion appends, deletion leaves a hole
\* (live = FALSE) and assignment to a present key keeps the entry's place.
Hole == [k |-> "", v |-> NoConn, live |-> FALSE]

DictHas(d, key) == \E i \in 1..Len(d) : d[i].live /\ d[i].k = key

DictIdx(d, key) == CHOOSE i \in 1..Len(d) : d[i].live /\ d[i].k = key

DictGet(d, key) == d[DictIdx(d, key)].v

DictSet(d, key, val) ==
    IF DictHas(d, key)
    THEN [d EXCEPT ![DictIdx(d, key)].v = val]
    ELSE Append(d, [k |-> key, v |-> val, live |-> TRUE])

DictDel(d, key) ==
    IF DictHas(d, key) THEN [d EXCEPT ![DictIdx(d, key)] = Hole] ELSE d

DictLen(d) == Cardinality({i \in 1..Len(d) : d[i].live})

DictKeys(d) == {d[i].k : i \in {j \in 1..Len(d) : d[j].live}}

\* =================================================== the browser client
\* server.py, the page's script: one Terminal object and the page's health
\* check. Every callback of the page runs to its end before the next one
\* starts; a timer fires at some time after it was set, unless cleared.
\*
\* Text is a sequence of tokens [s, n]: the words of the conflict phrase,
\* "sp" (n blanks), "esc" (an ANSI escape sequence of n characters) and
\* "x" (n other characters).
Tok(s, n) == [s |-> s, n |-> n]

RECURSIVE TextLen(_)
TextLen(t) == IF t = <<>> THEN 0 ELSE Head(t).n + TextLen(Tail(t))

\* what is left of a token cut to its last m characters: a cut word or
\* escape sequence is other text
Rest(k, m) == IF k.s \in {"x", "sp"} THEN Tok(k.s, m) ELSE Tok("x", m)

RECURSIVE DropChars(_, _)
DropChars(t, d) ==
    IF d = 0 \/ t = <<>> THEN t
    ELSE IF Head(t).n <= d THEN DropChars(Tail(t), d - Head(t).n)
    ELSE <<Rest(Head(t), Head(t).n - d)>> \o Tail(t)

\* runs of blanks and of other text are one token each
RECURSIVE Norm(_)
Norm(t) ==
    IF Len(t) < 2 THEN t
    ELSE IF t[1].s = t[2].s /\ t[1].s \in {"x", "sp"}
    THEN Norm(<<Tok(t[1].s, t[1].n + t[2].n)>> \o SubSeq(t, 3, Len(t)))
    ELSE <<t[1]>> \o Norm(Tail(t))

\* a + b of two strings
Concat(a, b) == Norm(a \o b)

\* s.slice(-k)
SliceLast(t, k) == IF TextLen(t) <= k THEN t ELSE DropChars(t, TextLen(t) - k)

\* stripAnsi of onmessage: the escape sequences are removed
stripAnsi(t) == Norm(SelectSeq(t, LAMBDA k : k.s # "esc"))

\* conflictPattern.test(t), conflictPattern = /already\s+in\s+use/i
conflictPattern(t) ==
    \E i, j, k \in 1..Len(t) :
        /\ i + 1 < j /\ j + 1 < k
        /\ t[i].s = "already" /\ t[j].s = "in" /\ t[k].s = "use"
        /\ \A m \in (i + 1)..(j - 1) : t[m].s = "sp"
        /\ \A m \in (j + 1)..(k - 1) : t[m].s = "sp"

maxRetries == 3
BufferLimit == 2000
BufferKeep == 1000
SmallPacket == 4096

\* the terminal_output chunks a process sends
ChunkAlready == <<Tok("already", 7), Tok("sp", 1)>>
ChunkInUse == <<Tok("in", 2), Tok("sp", 1), Tok("use", 3)>>
ChunkText == <<Tok("x", 5)>>
ChunkBig == <<Tok("x", SmallPacket)>>
Chunks == {ChunkAlready, ChunkInUse, ChunkText, ChunkBig}
\* chunks that fill outputBuffer to its limit and beyond
ChunkFill == <<Tok("x", 1500)>>
ChunkToLimit == <<Tok("sp", BufferLimit - 1500)>>
ChunkOverLimit == <<Tok("sp", BufferLimit - 1499)>>
ChunkConflict == Concat(ChunkAlready, ChunkInUse)
BufferChunks == {ChunkFill, ChunkToLimit, ChunkOverLimit, ChunkBig,
                 ChunkConflict}
\* large chunks that hold the conflict phrase, at their end and at their
\* start
ChunkBigConflict == Concat(ChunkBig, ChunkConflict)
ChunkConflictBig == Concat(ChunkConflict, ChunkBig)
LargeChunks == {ChunkBigConflict, ChunkConflictBig, ChunkBig, ChunkText}

\* a chunk as the conflict check may see it: a chunk of SmallPacket
\* characters or more is not looked at
Opaque(data) ==
    IF TextLen(data) < SmallPacket THEN data ELSE <<Tok("x", TextLen(data))>>

\* Terminal's constructor; sockets are numbered in the order connect()
\* creates them, a timer is <<kind, the socket whose callback set it>>;
\* inited: init() has run; nmsgs: the chunks delivered so far; ev: the
\* callback that ran in the latest step; since: all the output received
\* since outputBuffer was last set to the empty string (history); small:
\* the same with the text of every large chunk made other text (history)
NewTerminal ==
    [ws |-> 0, socks |-> <<>>, sessionId |-> 0, reconnectAttempts |-> 0,
     stableConnectionTimer |-> 0, reconnectTimeout |-> 0,
     handlingSessionConflict |-> FALSE, outputBuffer |-> <<>>,
     disposed |-> FALSE, timers |-> {}, serverStatus |-> "disconnected",
     inited |-> FALSE, nmsgs |-> 0, ev |-> "none", since |-> <<>>,
     small |-> <<>>]

\* WebSocket.close()
WsClose(c, i) ==
    IF c.socks[i].rs \in {"connecting", "open"}
    THEN [c EXCEPT !.socks[i].rs = "closing"]
    ELSE c

\* Terminal.connect(), called by the callback "by"; the page has a work
\* directory. A socket: rs, its readyState; onclose, its handler is set;
\* sid, the sessionId of its URL; by, the caller of connect (history);
\* recv, the chunks delivered to it (history); spent, its close event left
\* the retries used up (history)
connect(c, by) ==
    IF c.ws # 0 /\ c.socks[c.ws].rs \in {"connecting", "open"} THEN c
    ELSE LET c1 == IF c.ws # 0 THEN WsClose(c, c.ws) ELSE c
         IN  [c1 EXCEPT !.socks = Append(@, [rs |-> "connecting",
                                             onclose |-> TRUE,
                                             sid |-> c.sessionId,
                                             by |-> by, recv |-> <<>>,
                                             spent |-> FALSE]),
                        !.ws = Len(c.socks) + 1]

\* the callback set by onopen fires
StableTimer(c) ==
    IF c.ws # 0 /\ c.socks[c.ws].rs = "open"
    THEN [c EXCEPT !.reconnectAttempts = 0]
    ELSE c

\* ws.onopen of socket i
onopen(c, i) ==
    [c EXCEPT !.stableConnectionTimer = i,
              !.timers = @ \cup {<<"stable", i>>}]

\* ws.onclose of socket i
onclose(c, i) ==
    LET c1 == IF c.stableConnectionTimer # 0
              THEN [c EXCEPT !.timers = @ \ {<<"stable",
                                                c.stableConnectionTimer>>},
                             !.stableConnectionTimer = 0]
              ELSE c
        c2 == [c1 EXCEPT !.reconnectAttempts = @ + 1]
    IN  IF c1.handlingSessionConflict \/ c1.disposed THEN c1
        ELSE IF c2.reconnectAttempts <= maxRetries
        THEN [c2 EXCEPT !.reconnectTimeout = i,
                        !.timers = @ \cup {<<"reconnect", i>>}]
        ELSE c2

\* onmessage that tests the chunk alone, without outputBuffer
onmessageNoBuffer(c, i, data) ==
    LET c1 == [c EXCEPT !.outputBuffer = data, !.since = Concat(@, data),
                        !.small = Concat(@, Opaque(data))]
        c3 == IF c1.ws # 0
              THEN WsClose([c1 EXCEPT !.socks[c1.ws].onclose = FALSE], c1.ws)
              ELSE c1
    IN  IF c.disposed THEN c
        ELSE IF TextLen(data) < SmallPacket
                /\ \/ conflictPattern(stripAnsi(data))
                   \/ conflictPattern(data)
        THEN [c3 EXCEPT !.handlingSessionConflict = TRUE,
                        !.sessionId = @ + 1,
                        !.outputBuffer = <<>>,
                        !.since = <<>>,
                        !.small = <<>>,
                        !.timers = @ \cup {<<"conflict", i>>}]
        ELSE c1

\* onmessage that never cuts outputBuffer
onmessageKeepsAll(c, i, data) ==
    LET b  == Concat(c.outputBuffer, data)
        c1 == [c EXCEPT !.outputBuffer = b, !.since = Concat(@, data),
                        !.small = Concat(@, Opaque(data))]
        c3 == IF c1.ws # 0
              THEN WsClose([c1 EXCEPT !.socks[c1.ws].onclose = FALSE], c1.ws)
              ELSE c1
    IN  IF c.disposed THEN c
        ELSE IF TextLen(data) < SmallPacket
                /\ \/ conflictPattern(stripAnsi(data))
                   \/ conflictPattern(stripAnsi(c1.outputBuffer))
                   \/ conflictPattern(data)
                   \/ conflictPattern(c1.outputBuffer)
        THEN [c3 EXCEPT !.handlingSessionConflict = TRUE,
                        !.sessionId = @ + 1,
                        !.outputBuffer = <<>>,
                        !.since = <<>>,
                        !.small = <<>>,
                        !.timers = @ \cup {<<"conflict", i>>}]
        ELSE c1

\* ws.onmessage of socket i, case 'terminal_output'
onmessage(c, i, data) ==
    LET b  == Concat(c.outputBuffer, data)
        c1 == [c EXCEPT !.outputBuffer =
                  IF TextLen(b) > BufferLimit THEN SliceLast(b, BufferKeep)
                  ELSE b,
                        !.since = Concat(@, data),
                        !.small = Concat(@, Opaque(data))]
        c3 == IF c1.ws # 0
              THEN WsClose([c1 EXCEPT !.socks[c1.ws].onclose = FALSE], c1.ws)
              ELSE c1
    IN  IF c.disposed THEN c
        ELSE IF TextLen(data) < SmallPacket
                /\ \/ conflictPattern(stripAnsi(data))
                   \/ conflictPattern(stripAnsi(c1.outputBuffer))
                   \/ conflictPattern(data)
                   \/ conflictPattern(c1.outputBuffer)
        THEN [c3 EXCEPT !.handlingSessionConflict = TRUE,
                        !.sessionId = @ + 1,
                        !.outputBuffer = <<>>,
                        !.since = <<>>,
                        !.small = <<>>,
                        !.timers = @ \cup {<<"conflict", i>>}]
        ELSE c1

\* the callback set by onclose fires
ReconnectTimer(c) == IF c.disposed THEN c ELSE connect(c, "reconnect")

\* the callback set by the conflict branch of onmessage fires
ConflictTimer(c) ==
    connect([c EXCEPT !.handlingSessionConflict = FALSE,
                      !.reconnectAttempts = 0], "conflict")

\* checkServerHealth, fetch answered with res.ok; a disposed terminal is not
\* among getAllTerminals(): removeTerminal, closeProject and clearAllSessions
\* take it out of its project in the call that disposes it
HealthOk(c) ==
    IF c.serverStatus # "connected"
    THEN LET c1 == [c EXCEPT !.serverStatus = "connected"]
         IN  IF ~c1.disposed /\ (c1.ws = 0 \/ c1.socks[c1.ws].rs = "closed")
             THEN connect(c1, "health")
             ELSE c1
    ELSE c

\* checkServerHealth, fetch failed
HealthFail(c) ==
    IF c.serverStatus = "connected"
    THEN [c EXCEPT !.serverStatus = "reconnecting"]
    ELSE c

\* restartTerminal(terminalId) of this terminal
restartKeepsCount(c) == connect(c, "manual")

restartTerminal(c) == connect([c EXCEPT !.reconnectAttempts = 0], "manual")

\* Terminal.dispose(): clearTimeout of the two handles the terminal keeps,
\* close() of its socket
dispose(c) ==
    LET c1 == [c EXCEPT !.disposed = TRUE,
                        !.timers = @ \ {<<"reconnect", c.reconnectTimeout>>,
                                        <<"stable", c.stableConnectionTimer>>}]
    IN  IF c1.ws # 0 THEN WsClose(c1, c1.ws) ELSE c1


\* ------------------------------------------------------------- state
VARIABLES
    lim,                \* the bounds of the run (never changes)
    hpc,                \* handler c: where the task of terminal_websocket stands
    req,                \* handler c: the request's session_id, agent, role
    awaiting,           \* handler c: the session whose stop() it is suspended in
    ws,                 \* transport c as the client leaves it: none, open, closed
    out,                \* what the latest step did outside the program state:
                        \* <<"send", transport, envelope type>>,
                        \* <<"terminate", session, 0>>, <<"remove", session, file>>
    sessions,           \* SessionManager.sessions: session_id -> transport
    agent_info,         \* SessionManager.agent_info: session_id -> info
    terminal_sessions,  \* terminal.py terminal_sessions: session_id -> session
    running,            \* session s: _running
    pty,                \* session s: self.pty is set
    proc,               \* session s: its process: unspawned, failed (spawn), alive,
                        \* exited (by itself), killed (by terminate)
    read_task,          \* session s: where _read_pty_output stands
    cancelled,          \* session s: cancel() was called on a pending read task
    read_count,         \* session s: read_count of _read_pty_output
    temp_files,         \* session s: _temp_files
    nfiles,             \* session s: files send_image created so far
    disk,               \* the temp files that exist: <<session, number>>
    stop_returned,      \* session s: stop() calls that have returned (history)
    bc,                 \* the task in SessionManager.broadcast: its place, its dict
                        \* iterator and the sends it made so far, kept for one
                        \* state after the call has ended
    sd,                 \* the call of SessionManager.send_direct the latest step
                        \* made, if any, and its result
    cl,                 \* the task in cleanup_all_sessions: its place, the
                        \* sessions of its list it has yet to stop, and the
                        \* sessions whose process was alive at the call (history)
    winsize,            \* session s: the window size of its process, as
                        \* <<rows, cols>>
    rz,                 \* the call of resize the latest step made, if any:
                        \* its session, its arguments and how it ended
    img,                \* the call of send_image the latest step made or
                        \* resumed, if any: its session, the kind of image
                        \* data it was given and how it ended
    rd,                 \* session s: its process output as a stream of
                        \* numbered chunks: the chunk pty.read gives next,
                        \* the executor threads inside pty.read, and the
                        \* chunks sent as terminal_output so far (history)
    pg,                 \* the connection whose handler took a ping message
                        \* from its transport in the latest step, if any
    un,                 \* the call of manager.unregister in the latest step,
                        \* if there was one: its argument and the two dicts
                        \* as it found them
    cli,                \* the page: one Terminal object, its sockets and
                        \* pending timers, and serverStatus
    asm                 \* a TerminalSession from its construction to its
                        \* spawn: the arguments, the command line start()
                        \* builds and where start() stands

vars == <<lim, hpc, req, awaiting, ws, out, sessions, agent_info,
          terminal_sessions, running, pty, proc, read_task, cancelled,
          read_count, temp_files, nfiles, disk, stop_returned, bc, sd, cl,
          winsize, rz, img, rd, pg, un, cli, asm>>

\* the state of the handlers and their sessions
handler_vars == <<lim, hpc, req, awaiting, ws, out, sessions, agent_info,
                  terminal_sessions, running, pty, proc, read_task, cancelled,
                  read_count, temp_files, nfiles, disk, stop_returned, bc, sd,
                  cl, winsize, rz, img, rd, pg, un>>

\* the state of the server process
server_vars == <<handler_vars, asm>>

\* the envelope types of the wire protocol; "persona" is the terminal_output
\* of terminal_websocket and "hint" the terminal_output after terminal_closed
Envelopes == {"persona", "terminal_started", "terminal_output",
              "terminal_closed", "hint", "image_added", "error", "pong",
              "broadcast_message", "inject_input"}

NoReq == [id |-> "", agent |-> "", role |-> "", index |-> 0]

\* no broadcast under way; di_used, di_pos, len: the dict iterator; reg: the
\* registry when broadcast was called; tried: the sends it made, in order, as
\* <<session_id, transport, delivered>>
NoBroadcast == [pc |-> "idle", sender |-> "", di_used |-> 0, di_pos |-> 0,
                len |-> 0, reg |-> <<>>, tried |-> <<>>]

\* no send_direct called in this step
NoDirect == [index |-> 0, result |-> "none"]

\* no TerminalSession under construction
NoAssembly == [pc |-> "none", session_id |-> EmptyId, agent_type |-> "",
               role |-> "", pm |-> None, cmd |-> <<>>]

\* dimensions=(24, 80) of PtyProcess.spawn
SpawnSize == <<24, 80>>

\* no resize called in this step; result: "applied" (setwinsize returned),
\* "logged" (an exception was caught and printed), "skipped" (no live
\* process), "raised"
NoResize == [session |-> NoConn, rows |-> 0, cols |-> 0, result |-> "none"]

\* no send_image called or resumed in this step; result: "None" (returned
\* None), "path" (returned the path), "raised", "writing" (suspended in
\* self.write)
NoImage == [session |-> NoConn, input |-> "none", result |-> "none"]

\* nothing read from the process yet: pty.read gives chunk 1 next
NoReads == [next |-> 1, threads |-> 0, sent |-> <<>>]

\* cleanup_all_sessions not called yet
NoCleanup == [pc |-> "idle", todo |-> <<>>, live |-> {}]

NoCall == [id |-> "", sessions |-> <<>>, agent_info |-> <<>>]

\* the state a step starts from: nothing done outside yet, and the result of
\* a call that ended in the step before has been taken
Cur == [lim |-> lim, hpc |-> hpc, req |-> req, awaiting |-> awaiting,
        ws |-> ws, out |-> <<>>, sessions |-> sessions,
        agent_info |-> agent_info, terminal_sessions |-> terminal_sessions,
        running |-> running, pty |-> pty, proc |-> proc,
        read_task |-> read_task, cancelled |-> cancelled,
        read_count |-> read_count, temp_files |-> temp_files,
        nfiles |-> nfiles, disk |-> disk, stop_returned |-> stop_returned,
        bc |-> IF bc.pc \in {"returned", "raised"} THEN NoBroadcast ELSE bc,
        sd |-> NoDirect, cl |-> cl, winsize |-> winsize, rz |-> NoResize,
        img |-> NoImage, rd |-> rd, pg |-> NoConn, un |-> NoCall,
        cli |-> cli,
        asm |-> asm]

Commit(st) ==
    /\ lim' = st.lim
    /\ hpc' = st.hpc
    /\ req' = st.req
    /\ awaiting' = st.awaiting
    /\ ws' = st.ws
    /\ out' = st.out
    /\ sessions' = st.sessions
    /\ agent_info' = st.agent_info
    /\ terminal_sessions' = st.terminal_sessions
    /\ running' = st.running
    /\ pty' = st.pty
    /\ proc' = st.proc
    /\ read_task' = st.read_task
    /\ cancelled' = st.cancelled
    /\ read_count' = st.read_count
    /\ temp_files' = st.temp_files
    /\ nfiles' = st.nfiles
    /\ disk' = st.disk
    /\ stop_returned' = st.stop_returned
    /\ bc' = st.bc
    /\ sd' = st.sd
    /\ cl' = st.cl
    /\ winsize' = st.winsize
    /\ rz' = st.rz
    /\ img' = st.img
    /\ rd' = st.rd
    /\ pg' = st.pg
    /\ un' = st.un
    /\ cli' = st.cli
    /\ asm' = st.asm

\* the initial state of a run bounded by l
InitWith(l) ==
    /\ lim = l
    /\ hpc = [c \in Conns |-> "idle"]
    /\ req = [c \in Conns |-> NoReq]
    /\ awaiting = [c \in Conns |-> NoConn]
    /\ ws = [c \in Conns |-> "none"]
    /\ out = <<>>
    /\ sessions = <<>>
    /\ agent_info = <<>>
    /\ terminal_sessions = <<>>
    /\ running = [s \in Conns |-> FALSE]
    /\ pty = [s \in Conns |-> FALSE]
    /\ proc = [s \in Conns |-> "unspawned"]
    /\ read_task = [s \in Conns |-> "None"]
    /\ cancelled = [s \in Conns |-> FALSE]
    /\ read_count = [s \in Conns |-> 0]
    /\ temp_files = [s \in Conns |-> {}]
    /\ nfiles = [s \in Conns |-> 0]
    /\ disk = {}
    /\ stop_returned = [s \in Conns |-> 0]
    /\ bc = NoBroadcast
    /\ sd = NoDirect
    /\ cl = NoCleanup
    /\ winsize = [s \in Conns |-> SpawnSize]
    /\ rz = NoResize
    /\ img = NoImage
    /\ rd = [s \in Conns |-> NoReads]
    /\ pg = NoConn
    /\ un = NoCall
    /\ cli = NewTerminal
    /\ asm = NoAssembly

\* ------------------------------------------------------- transports
\* websocket.send_json: delivers, or raises when the client is gone
CanSend(st, w) == st.ws[w] = "open"

send_json(st, w, type) == [st EXCEPT !.out = Append(@, <<"send", w, type>>)]

\* --------------------------------------------------- SessionManager
\* register that stores the transport only
registerTransport(st, session_id, websocket, info) ==
    [st EXCEPT !.sessions = DictSet(@, session_id, websocket)]

register(st, session_id, websocket, info) ==
    [st EXCEPT !.sessions = DictSet(@, session_id, websocket),
               !.agent_info = DictSet(@, session_id, info)]

\* unregister that forgets the metadata
unregisterTransport(st, session_id) ==
    [st EXCEPT !.sessions = DictDel(@, session_id),
               !.un = [id |-> session_id, sessions |-> st.sessions,
                       agent_info |-> st.agent_info]]

unregister(st, session_id) ==
    [st EXCEPT !.sessions = DictDel(@, session_id),
               !.agent_info = DictDel(@, session_id),
               !.un = [id |-> session_id, sessions |-> st.sessions,
                       agent_info |-> st.agent_info]]

\* the <<session_id, transport>> pairs of the registry d
Registered(d) == {<<d[i].k, d[i].v>> : i \in {j \in 1..Len(d) : d[j].live}}

\* the place of the first entry after place i of d that is no hole, or 0
NextEntry(d, i) ==
    LET later == {j \in (i + 1)..Len(d) : d[j].live}
    IN IF later = {} THEN 0 ELSE CHOOSE j \in later : \A k \in later : j <= k

\* BroadcastSend without the try: a failed send ends the broadcast
BroadcastSendUnguarded(st, sid, w) ==
    LET a == [st EXCEPT !.bc.tried = Append(@, <<sid, w, CanSend(st, w)>>)]
    IN IF CanSend(a, w)
       THEN [send_json(a, w, "broadcast_message") EXCEPT !.bc.pc = "sending"]
       ELSE [a EXCEPT !.bc.pc = "raised"]

\* one "await ws.send_json(...)" of broadcast inside "try ... except: pass"
BroadcastSend(st, sid, w) ==
    LET a == [st EXCEPT !.bc.tried = Append(@, <<sid, w, CanSend(st, w)>>),
                        !.bc.pc = "sending"]
    IN IF CanSend(a, w) THEN send_json(a, w, "broadcast_message") ELSE a

\* broadcast from a step of "for sid, ws in self.sessions.items()" to its next
\* suspension. The dict iterator raises RuntimeError when the dict has
\* changed size since the iterator was made, and when it finds an entry after
\* it has produced as many as the dict had.
RECURSIVE BroadcastRun(_)
BroadcastRun(st) ==
    LET d == st.sessions
        i == NextEntry(d, st.bc.di_pos)
    IN IF st.bc.di_used # DictLen(d) THEN [st EXCEPT !.bc.pc = "raised"]
       ELSE IF i = 0 THEN [st EXCEPT !.bc.pc = "returned"]
       ELSE IF st.bc.len = 0 THEN [st EXCEPT !.bc.pc = "raised"]
       ELSE LET a == [st EXCEPT !.bc.di_pos = i, !.bc.len = @ - 1]
            IN IF d[i].k # st.bc.sender
               THEN BroadcastSend(a, d[i].k, d[i].v)
               ELSE BroadcastRun(a)

\* a call of broadcast(sender_id, message), to its first suspension
broadcast(st, sender_id) ==
    BroadcastRun([st EXCEPT !.bc = [pc |-> "called", sender |-> sender_id,
                                    di_used |-> DictLen(st.sessions),
                                    di_pos |-> 0,
                                    len |-> DictLen(st.sessions),
                                    reg |-> st.sessions, tried |-> <<>>]])

\* WithIndex without the comparison of the index
WithIndexAny(d, target_index) == {i \in 1..Len(d) : d[i].live}

\* the places of agent_info whose info has the index
WithIndex(d, target_index) ==
    {i \in 1..Len(d) : d[i].live /\ d[i].v.index = target_index}

\* send_direct that takes the last session whose info has the index
send_directLast(st, target_index) ==
    LET hits == WithIndex(st.agent_info, target_index)
        last == CHOOSE i \in hits : \A j \in hits : i >= j
        target_sid == st.agent_info[last].k
        call == [index |-> target_index, result |-> "False"]
    IN IF hits # {} /\ DictHas(st.sessions, target_sid)
       THEN LET w == DictGet(st.sessions, target_sid)
            IN IF CanSend(st, w)
               THEN [send_json(st, w, "inject_input") EXCEPT
                        !.sd = [call EXCEPT !.result = "True"]]
               ELSE [st EXCEPT !.sd = [call EXCEPT !.result = "raised"]]
       ELSE [st EXCEPT !.sd = call]

\* a call of send_direct(target_index, ...): the first session whose info has
\* the index gets one inject_input envelope; the send is not guarded
send_direct(st, target_index) ==
    LET hits == WithIndex(st.agent_info, target_index)
        first == CHOOSE i \in hits : \A j \in hits : i <= j
        target_sid == st.agent_info[first].k
        call == [index |-> target_index, result |-> "False"]
    IN IF hits # {} /\ DictHas(st.sessions, target_sid)
       THEN LET w == DictGet(st.sessions, target_sid)
            IN IF CanSend(st, w)
               THEN [send_json(st, w, "inject_input") EXCEPT
                        !.sd = [call EXCEPT !.result = "True"]]
               ELSE [st EXCEPT !.sd = [call EXCEPT !.result = "raised"]]
       ELSE [st EXCEPT !.sd = call]

\* -------------------------------------------------- TerminalSession.stop
\* stop() without "await self._read_task"
ReadTaskNeverPending(st, s) == FALSE

\* the read task exists and has not finished
ReadTaskPending(st, s) == st.read_task[s] \notin {"None", "done"}

\* stop() up to "await self._read_task": _running = False and, when there is
\* a read task, cancel() (which only marks a task that is still pending)
StopBegin(st, s) ==
    [st EXCEPT !.running[s] = FALSE,
               !.cancelled[s] = @ \/ ReadTaskPending(st, s)]

\* the os.remove calls for the files numbered 1..n of session s among files
RECURSIVE RemoveOps(_, _, _)
RemoveOps(s, files, n) ==
    IF n = 0 THEN <<>>
    ELSE RemoveOps(s, files, n - 1) \o
         (IF <<s, n>> \in files THEN << <<"remove", s, n>> >> ELSE <<>>)

\* RemoveTempFiles that leaves _temp_files as it is and calls os.remove
\* without os.path.exists
RemoveTempFilesKeepsSet(st, s) ==
    [st EXCEPT !.disk = @ \ st.temp_files[s],
               !.out = @ \o RemoveOps(s, st.temp_files[s], st.nfiles[s])]

\* temp_files_copy = list(self._temp_files); self._temp_files = set(); then
\* os.remove of every copied path that os.path.exists finds
RemoveTempFiles(st, s) ==
    LET found == st.temp_files[s] \cap st.disk
    IN [st EXCEPT !.disk = @ \ found,
                  !.temp_files[s] = {},
                  !.out = @ \o RemoveOps(s, found, st.nfiles[s])]

\* TerminatePty without the isalive() test and without "self.pty = None"
TerminatePtyKeepsHandle(st, s) ==
    IF st.pty[s]
    THEN [st EXCEPT !.proc[s] = "killed",
                    !.out = Append(@, <<"terminate", s, 0>>)]
    ELSE st

\* if self.pty: terminate(force=True) when isalive(); then self.pty = None
TerminatePty(st, s) ==
    IF st.pty[s]
    THEN IF st.proc[s] = "alive"
         THEN [st EXCEPT !.proc[s] = "killed", !.pty[s] = FALSE,
                         !.out = Append(@, <<"terminate", s, 0>>)]
         ELSE [st EXCEPT !.pty[s] = FALSE]
    ELSE st

\* stop() from the return of "await self._read_task" to its end
StopFinish(st, s) ==
    LET a == TerminatePty(st, s)
        b == RemoveTempFiles(a, s)
    IN [b EXCEPT !.stop_returned[s] = @ + 1]

\* -------------------------------------------------- cleanup_all_sessions
\* the values of dict d in the order of list(d.items())
RECURSIVE DictValues(_)
DictValues(d) ==
    IF d = <<>> THEN <<>>
    ELSE (IF Head(d).live THEN <<Head(d).v>> ELSE <<>>) \o DictValues(Tail(d))

\* the loop over the list, from the top of an iteration to the next
\* suspension, which is in the stop() of a session whose read task is pending;
\* after the loop, terminal_sessions.clear()
RECURSIVE CleanupRun(_)
CleanupRun(st) ==
    IF st.cl.todo = <<>>
    THEN [st EXCEPT !.terminal_sessions = <<>>, !.cl.pc = "done"]
    ELSE LET s == Head(st.cl.todo)
             a == StopBegin(st, s)
         IN IF ReadTaskPending(st, s)
            THEN [a EXCEPT !.cl.pc = "stopping"]
            ELSE CleanupRun([StopFinish(a, s) EXCEPT !.cl.todo = Tail(@)])

\* a call of cleanup_all_sessions(), to its first suspension
cleanup_all_sessions(st) ==
    CleanupRun([st EXCEPT !.cl = [pc |-> "called",
                                  todo |-> DictValues(st.terminal_sessions),
                                  live |-> {s \in Conns : st.proc[s] = "alive"}]])

\* ------------------------------------------ TerminalSession._read_pty_output
\* after the while loop: terminal_closed, then the hint when nothing was read
ReadLoopExit(st, s) ==
    IF CanSend(st, s)
    THEN LET a == send_json(st, s, "terminal_closed")
         IN [a EXCEPT !.read_task[s] =
                          IF st.read_count[s] = 0 THEN "hint1" ELSE "done"]
    ELSE [st EXCEPT !.read_task[s] = "done"]

\* ------------------------------------------------ terminal_websocket tail
\* finally: manager.unregister(session_id)
Finish(st, c) ==
    LET a == unregister(st, st.req[c].id)
    IN [a EXCEPT !.hpc[c] = "done"]

\* an exception that leaves terminal_websocket before its try block
Escape(st, c) == [st EXCEPT !.hpc[c] = "done"]

\* start that leaves the started envelope to a later step
startSilent(st, c, spawn_ok) ==
    IF ~WINPTY_AVAILABLE \/ ~spawn_ok
    THEN Finish([st EXCEPT !.proc[c] = "failed"], c)
    ELSE [st EXCEPT !.proc[c] = "alive", !.pty[c] = TRUE,
                    !.running[c] = TRUE, !.read_task[c] = "loop",
                    !.hpc[c] = "recv"]

\* ------------------------------------------------ TerminalSession.start
\* start() of the session handler c has just created; spawn_ok: whether
\* PtyProcess.spawn succeeds. Returns the state at the next suspension.
start(st, c, spawn_ok) ==
    IF ~WINPTY_AVAILABLE \/ ~spawn_ok
    THEN \* error envelope, return False; handle_terminal_websocket returns
         LET f == [st EXCEPT !.proc[c] = "failed"]
         IN IF CanSend(f, c)
            THEN [send_json(f, c, "error") EXCEPT !.hpc[c] = "unreg"]
            ELSE Finish(f, c)
    ELSE LET a == [st EXCEPT !.proc[c] = "alive", !.pty[c] = TRUE,
                             !.running[c] = TRUE, !.read_task[c] = "loop"]
         IN IF CanSend(a, c)
            THEN [send_json(a, c, "terminal_started") EXCEPT !.hpc[c] = "recv"]
            ELSE \* the send raises, and so does the error envelope of the
                 \* except branch: the exception leaves the handler
                 Finish(a, c)

\* ------------------------------------------- handle_terminal_websocket
\* session = TerminalSession(...); terminal_sessions[session_id] = session;
\* await session.start(websocket)
Create(st, c, spawn_ok) ==
    LET a == [st EXCEPT !.terminal_sessions = DictSet(@, st.req[c].id, c)]
    IN start(a, c, spawn_ok)

\* Enter without "await session.stop()" of the session found in the table
EnterWithoutStop(st, c, spawn_ok) == Create(st, c, spawn_ok)

\* from the top of handle_terminal_websocket
Enter(st, c, spawn_ok) ==
    LET id == st.req[c].id IN
    IF DictHas(st.terminal_sessions, id)
    THEN LET s == DictGet(st.terminal_sessions, id)
             a == StopBegin(st, s)
         IN IF ReadTaskPending(st, s)
            THEN [a EXCEPT !.hpc[c] = "replace_wait", !.awaiting[c] = s]
            ELSE Create(StopFinish(a, s), c, spawn_ok)
    ELSE Create(st, c, spawn_ok)

\* after "await session.stop()" of the finally block
AfterFinalStop(st, c) ==
    LET a == [st EXCEPT !.terminal_sessions = DictDel(@, st.req[c].id)]
    IN Finish(a, c)

\* the finally block of handle_terminal_websocket
Teardown(st, c) ==
    LET a == StopBegin(st, c)
    IN IF ReadTaskPending(st, c)
       THEN [a EXCEPT !.hpc[c] = "final_wait", !.awaiting[c] = c]
       ELSE AfterFinalStop(StopFinish(a, c), c)

\* ------------------------------------------------------ TerminalSession.write
\* "if self.pty and self.pty.isalive()": the write goes to the executor
WriteForwards(st, s) == st.pty[s] /\ st.proc[s] = "alive"

\* ------------------------------------------------- TerminalSession.resize
MinRows == 10
MaxRows == 200
MinCols == 20
MaxCols == 400

Least(a, b) == IF a <= b THEN a ELSE b

\* resize that applies the size it was given
resizeUnclamped(st, s, rows, cols, fails) ==
    LET a == [st EXCEPT !.rz = [session |-> s, rows |-> rows, cols |-> cols,
                                result |-> "skipped"]]
    IN  IF ~(a.pty[s] /\ a.proc[s] = "alive") THEN a
        ELSE IF fails THEN [a EXCEPT !.rz.result = "logged"]
        ELSE [a EXCEPT !.winsize[s] = <<rows, cols>>,
                       !.rz.result = "applied"]

\* resize(rows, cols); fails: setwinsize raises
resize(st, s, rows, cols, fails) ==
    LET a == [st EXCEPT !.rz = [session |-> s, rows |-> rows, cols |-> cols,
                                result |-> "skipped"]]
    IN  IF ~(a.pty[s] /\ a.proc[s] = "alive") THEN a
        ELSE IF fails THEN [a EXCEPT !.rz.result = "logged"]
        ELSE [a EXCEPT !.winsize[s] =
                          <<Max(MinRows, Least(MaxRows, rows)),
                            Max(MinCols, Least(MaxCols, cols))>>,
                       !.rz.result = "applied"]

\* ------------------------------------------------- TerminalSession.send_image
ImageInputs == {"ok", "base64_too_long", "base64_invalid", "too_large",
                "write_fails"}

\* the except branch of send_image: an error envelope; when that raises too,
\* the exception reaches the handler's finally
ImageFailed(st, c) ==
    IF CanSend(st, c)
    THEN [send_json(st, c, "error") EXCEPT !.hpc[c] = "recv",
                                          !.img.session = c,
                                          !.img.result = "None"]
    ELSE Teardown([st EXCEPT !.img.session = c, !.img.result = "raised"], c)

\* the image_added envelope after the add command was written
ImageAdded(st, c) ==
    IF CanSend(st, c)
    THEN [send_json(st, c, "image_added") EXCEPT !.hpc[c] = "recv",
                                                !.img.session = c,
                                                !.img.result = "path"]
    ELSE ImageFailed(st, c)

\* send_image that saves the decoded image before it checks its size
send_imageSavesFirst(st0, c, image) ==
    LET st == [st0 EXCEPT !.img.session = c, !.img.input = image]
        agent == st.req[c].agent
        path == <<c, st.nfiles[c] + 1>>
        saved == [st EXCEPT !.disk = @ \cup {path},
                            !.nfiles[c] = @ + 1,
                            !.temp_files[c] = @ \cup {path}]
    IN
    IF ~add_image_cmd(agent) THEN ImageFailed(st, c)
    ELSE IF image \in {"base64_too_long", "base64_invalid"}
    THEN ImageFailed(st, c)
    ELSE IF image = "too_large" THEN ImageFailed(saved, c)
    ELSE IF image = "write_fails"
    THEN ImageFailed([st EXCEPT !.disk = @ \cup {path},
                                !.nfiles[c] = @ + 1], c)
    ELSE IF WriteForwards(saved, c)
         THEN [saved EXCEPT !.hpc[c] = "image_write",
                            !.img.result = "writing"]
         ELSE ImageAdded(saved, c)

\* send_image up to its first suspension; the file is <<session, number>>
send_image(st0, c, image) ==
    LET st == [st0 EXCEPT !.img.session = c, !.img.input = image]
        agent == st.req[c].agent
        path == <<c, st.nfiles[c] + 1>>
    IN
    IF ~add_image_cmd(agent) THEN ImageFailed(st, c)
    ELSE IF image \in {"base64_too_long", "base64_invalid", "too_large"}
    THEN ImageFailed(st, c)
    ELSE IF image = "write_fails"
    THEN \* open() has created the file, f.write raises
         ImageFailed([st EXCEPT !.disk = @ \cup {path},
                                !.nfiles[c] = @ + 1], c)
    ELSE LET a == [st EXCEPT !.disk = @ \cup {path},
                             !.nfiles[c] = @ + 1,
                             !.temp_files[c] = @ \cup {path}]
         IN IF WriteForwards(a, c)
            THEN [a EXCEPT !.hpc[c] = "image_write", !.img.result = "writing"]
            ELSE ImageAdded(a, c)

\* ------------------------------------------------- what a run may still do
RECURSIVE Sum(_, _)
Sum(f, S) ==
    IF S = {} THEN 0
    ELSE LET x == CHOOSE y \in S : TRUE IN f[x] + Sum(f, S \ {x})

ChunksRead == Sum(read_count, Conns)
FilesCreated == Sum(nfiles, Conns)
WritesInFlight == Cardinality({b \in Conns : hpc[b] \in {"write", "image_write"}})
Closed == Cardinality({b \in Conns : ws[b] = "closed"})
Exited == Cardinality({b \in Conns : proc[b] = "exited"})
SpawnFailed == Cardinality({b \in Conns : proc[b] = "failed"})

\* PtyProcess.spawn succeeds, or raises
SpawnOutcomes == {TRUE} \cup {ok \in {FALSE} : SpawnFailed < lim.spawn_fails}

\* the identifiers a new connection may name: one in use before, or the next
UsedIds == {req[b].id : b \in {a \in Conns : hpc[a] # "idle"}}
FreshIds ==
    IF Cardinality(UsedIds) < Len(lim.ids)
    THEN {lim.ids[Cardinality(UsedIds) + 1]}
    ELSE {}

\* -------------------------------------------------- the connection handler
\* terminal_websocket from accept() to its first suspension; gone: the client
\* has closed the transport by the time the handler first sends on it
Connect(c) ==
    /\ hpc[c] = "idle"
    /\ c <= lim.conns
    /\ \A b \in Conns : b < c => hpc[b] # "idle"
    /\ \E id \in UsedIds \cup FreshIds, agent \in lim.agents,
          role \in lim.roles, index \in lim.indices, gone \in BOOLEAN,
          spawn_ok \in SpawnOutcomes :
          /\ gone => Closed < lim.closes
          /\ LET info == [name |-> agent, type |-> agent, role |-> role,
                          index |-> index]
                 a == [Cur EXCEPT !.ws[c] = IF gone THEN "closed" ELSE "open",
                                  !.req[c] = [id |-> id, agent |-> agent,
                                              role |-> role, index |-> index]]
                 b == register(a, id, c, info)
             IN IF role \in PERSONAS
                THEN IF CanSend(b, c)
                     THEN Commit([send_json(b, c, "persona") EXCEPT
                                     !.hpc[c] = "enter"])
                     ELSE Commit(Escape(b, c))
                ELSE Commit(Enter(b, c, spawn_ok))

\* the client closes transport c
ClientClose(c) ==
    /\ ws[c] = "open"
    /\ Closed < lim.closes
    /\ Commit([Cur EXCEPT !.ws[c] = "closed"])

\* handle_terminal_websocket entered after the persona notice was sent
Entered(c) ==
    /\ hpc[c] = "enter"
    /\ \E spawn_ok \in SpawnOutcomes : Commit(Enter(Cur, c, spawn_ok))

\* "await session.stop()" of the replaced session returns
ReplaceResume(c) ==
    /\ hpc[c] = "replace_wait"
    /\ ~ReadTaskPending(Cur, awaiting[c])
    /\ \E spawn_ok \in SpawnOutcomes :
          Commit(Create(StopFinish([Cur EXCEPT !.awaiting[c] = NoConn],
                                   awaiting[c]), c, spawn_ok))

\* start() returned False: the handler returns, terminal_websocket unregisters
StartFailedReturn(c) ==
    /\ hpc[c] = "unreg"
    /\ Commit(Finish(Cur, c))

\* receive_json raises: the client has disconnected
RecvDisconnect(c) ==
    /\ hpc[c] = "recv"
    /\ ws[c] = "closed"
    /\ Commit(Teardown(Cur, c))

\* an input message: session.write
RecvInput(c) ==
    /\ hpc[c] = "recv"
    /\ ws[c] = "open"
    /\ WritesInFlight < lim.writes
    /\ WriteForwards(Cur, c)
    /\ Commit([Cur EXCEPT !.hpc[c] = "write"])

\* the executor's pty.write is over: it raises when the pty is gone
WriteDone(c) ==
    /\ hpc[c] = "write"
    /\ IF WriteForwards(Cur, c)
       THEN Commit([Cur EXCEPT !.hpc[c] = "recv"])
       ELSE \/ Commit([Cur EXCEPT !.hpc[c] = "recv"])
            \/ Commit(Teardown(Cur, c))

\* RecvPing that answers only while the process is alive
RecvPingIfAlive(c) ==
    /\ hpc[c] = "recv"
    /\ ws[c] = "open"
    /\ IF proc[c] = "alive"
       THEN Commit(send_json([Cur EXCEPT !.pg = c], c, "pong"))
       ELSE Commit([Cur EXCEPT !.pg = c])

\* a ping message: pong
RecvPing(c) ==
    /\ hpc[c] = "recv"
    /\ ws[c] = "open"
    /\ Commit(send_json([Cur EXCEPT !.pg = c], c, "pong"))

\* the rows and cols of a resize message
RowInputs == {0 - 1, 5, 10, 200, 201}
ColInputs == {19, 20, 400, 1000}

\* a resize message: session.resize
RecvResize(c) ==
    /\ hpc[c] = "recv"
    /\ ws[c] = "open"
    /\ \E rows \in RowInputs, cols \in ColInputs, fails \in BOOLEAN :
          Commit(resize(Cur, c, rows, cols, fails))

\* an image message: session.send_image
RecvImage(c) ==
    /\ hpc[c] = "recv"
    /\ ws[c] = "open"
    /\ FilesCreated < lim.files
    /\ WritesInFlight < lim.writes
    /\ \E image \in ImageInputs : Commit(send_image(Cur, c, image))

\* send_image after "await self.write(cmd)"
ImageWriteDone(c) ==
    /\ hpc[c] = "image_write"
    /\ IF WriteForwards(Cur, c)
       THEN Commit(ImageAdded(Cur, c))
       ELSE \/ Commit(ImageAdded(Cur, c))
            \/ Commit(ImageFailed(Cur, c))

\* "await session.stop()" of the finally block returns
FinalResume(c) ==
    /\ hpc[c] = "final_wait"
    /\ ~ReadTaskPending(Cur, c)
    /\ Commit(AfterFinalStop(StopFinish([Cur EXCEPT !.awaiting[c] = NoConn],
                                        c), c))

\* ------------------------------------------------------- the read task
\* one turn of the while loop of _read_pty_output: the loop ends when the
\* process is not alive; otherwise the executor's pty.read brings a chunk,
\* which is forwarded (a failed send ends the loop), and the task sleeps
ReadLoop(s) ==
    /\ read_task[s] = "loop"
    /\ ~cancelled[s]
    /\ IF running[s] /\ pty[s] /\ proc[s] = "alive"
       THEN /\ ChunksRead < lim.reads
            /\ LET a == [Cur EXCEPT !.read_count[s] = @ + 1]
               IN IF CanSend(a, s)
                  THEN Commit(send_json(a, s, "terminal_output"))
                  ELSE Commit(ReadLoopExit(a, s))
       ELSE Commit(ReadLoopExit(Cur, s))

\* the three hint envelopes after terminal_closed when nothing was read
ReadHint(s) ==
    /\ read_task[s] \in {"hint1", "hint2", "hint3"}
    /\ ~cancelled[s]
    /\ IF CanSend(Cur, s)
       THEN Commit([send_json(Cur, s, "hint") EXCEPT !.read_task[s] =
                       CASE @ = "hint1" -> "hint2"
                         [] @ = "hint2" -> "hint3"
                         [] OTHER -> "done"])
       ELSE Commit([Cur EXCEPT !.read_task[s] = "done"])

\* CancelledError is raised in the suspended read task
ReadCancelled(s) ==
    /\ ReadTaskPending(Cur, s)
    /\ cancelled[s]
    /\ Commit([Cur EXCEPT !.read_task[s] = "done"])

\* the process exits by itself
ProcessExit(s) ==
    /\ proc[s] = "alive"
    /\ Exited < lim.exits
    /\ Commit([Cur EXCEPT !.proc[s] = "exited"])

\* ---------------------------------- the read task, suspension by suspension
\* The turn of the while loop that ReadLoop takes in one step, as the steps
\* between its suspensions: the read in the executor, the send, the sleep.
\* The chunk a read returned is forwarded before the next read is started.

\* pty.read returns the same chunk at the next call
ForwardAgain(st, s) ==
    LET n == st.rd[s].next
        a == [st EXCEPT !.read_count[s] = @ + 1, !.rd[s].threads = @ - 1]
    IN IF CanSend(a, s)
       THEN [send_json(a, s, "terminal_output") EXCEPT
                !.rd[s].sent = Append(@, n), !.read_task[s] = "sleep"]
       ELSE ReadLoopExit(a, s)

\* the executor returns the next chunk of the stream: read_count += 1 and
\* send_json(terminal_output with the chunk); a send that raises ends the
\* loop; then asyncio.sleep(0.001)
Forward(st, s) ==
    LET n == st.rd[s].next
        a == [st EXCEPT !.read_count[s] = @ + 1, !.rd[s].threads = @ - 1,
                        !.rd[s].next = @ + 1]
    IN IF CanSend(a, s)
       THEN [send_json(a, s, "terminal_output") EXCEPT
                !.rd[s].sent = Append(@, n), !.read_task[s] = "sleep"]
       ELSE ReadLoopExit(a, s)

\* the top of the loop: it ends when the session is stopped or the process
\* is not alive; otherwise pty.read is handed to the executor
ReadBegin(s) ==
    /\ read_task[s] = "loop"
    /\ ~cancelled[s]
    /\ IF running[s] /\ pty[s] /\ proc[s] = "alive"
       THEN Commit([Cur EXCEPT !.read_task[s] = "read",
                               !.rd[s].threads = @ + 1])
       ELSE Commit(ReadLoopExit(Cur, s))

\* the executor's read returns to the task: a chunk, nothing (the task
\* sleeps 0.05 s), or an exception when the process has gone, which ends
\* the loop
ReadReturns(s) ==
    /\ read_task[s] = "read"
    /\ ~cancelled[s]
    /\ \/ /\ rd[s].next <= lim.reads
          /\ Commit(Forward(Cur, s))
       \/ Commit([Cur EXCEPT !.read_task[s] = "sleep",
                              !.rd[s].threads = @ - 1])
       \/ /\ proc[s] # "alive"
          /\ Commit(ReadLoopExit([Cur EXCEPT !.rd[s].threads = @ - 1], s))

\* the sleep at the end of the turn is over
ReadWake(s) ==
    /\ read_task[s] = "sleep"
    /\ ~cancelled[s]
    /\ Commit([Cur EXCEPT !.read_task[s] = "loop"])

\* the read of a task that was cancelled ends in its executor thread: the
\* chunk it took from the process, if any, is dropped
ReadAbandoned(s) ==
    /\ read_task[s] # "read"
    /\ rd[s].threads > 0
    /\ \/ /\ rd[s].next <= lim.reads
          /\ Commit([Cur EXCEPT !.rd[s].threads = @ - 1,
                                !.rd[s].next = @ + 1])
       \/ Commit([Cur EXCEPT !.rd[s].threads = @ - 1])

\* ------------------------------------------------ the registry's callers
\* some task calls manager.broadcast(sender_id, message)
BroadcastCall ==
    /\ bc.pc \in {"idle", "returned", "raised"}
    /\ \E k \in 1..Len(lim.ids) : Commit(broadcast(Cur, lim.ids[k]))

\* the send broadcast was suspended in is over
BroadcastResume ==
    /\ bc.pc = "sending"
    /\ Commit(BroadcastRun(Cur))

\* some task calls manager.send_direct(target_index, ...)
SendDirectCall ==
    \E target_index \in lim.indices : Commit(send_direct(Cur, target_index))

\* ---------------------------------------------------------- restart_server
\* POST /api/restart: do_restart calls cleanup_all_sessions
CleanupCall ==
    /\ cl.pc = "idle"
    /\ Commit(cleanup_all_sessions(Cur))

\* the stop() cleanup_all_sessions was suspended in returns
CleanupResume ==
    /\ cl.pc = "stopping"
    /\ ~ReadTaskPending(Cur, Head(cl.todo))
    /\ Commit(CleanupRun([StopFinish(Cur, Head(cl.todo)) EXCEPT
                             !.cl.todo = Tail(@)]))

\* ------------------------------------------- start(): the command line
\* the session identifiers, agent kinds, roles and PM prompts of a request
NotAUuid == [head |-> "", lens |-> <<3, 1, 4>>, hex |-> FALSE, ver |-> "u",
             var |-> "", tail |-> ""]
SessionIdInputs ==
    {EmptyId, NotAUuid} \cup
    [head : {"", "x"}, lens : {Uuid4Lens, <<8, 4, 4, 4, 11>>}, hex : BOOLEAN,
     ver : {"4", "1"}, var : {"a", "B", "c"}, tail : {"", LF, "x"}]
AgentInputs == {"claude", "shell", "other"}
RoleInputs == {"PM", "General", "Guest"}
PromptInputs ==
    {None, Str(<<>>), Str(<<"a", "LF", "b">>), Str(<<"a", "DQ", "CR">>)}
    \cup {Str(<<"a", ch, "b">>) : ch \in dangerous_chars}

\* TerminalSession(session_id, working_dir, agent_type, role)
NewSession ==
    /\ asm.pc = "none"
    /\ \E id \in SessionIdInputs, agent \in AgentInputs, role \in RoleInputs,
          pm \in PromptInputs :
          asm' = [pc |-> "new", session_id |-> id, agent_type |-> agent,
                  role |-> role, pm |-> pm, cmd |-> <<>>]
    /\ UNCHANGED <<handler_vars, cli>>

\* start() up to the spawn
AssembleCommand ==
    /\ asm.pc = "new"
    /\ WINPTY_AVAILABLE
    /\ asm' = [asm EXCEPT !.pc = "built",
                          !.cmd = BuildCommand(asm.session_id, asm.agent_type,
                                               ROLE_PROMPTS(asm.pm, asm.role))]
    /\ UNCHANGED <<handler_vars, cli>>

\* PtyProcess.spawn(cmd, ...) returns the process or raises
SpawnCommand ==
    /\ asm.pc = "built"
    /\ \E spawn_ok \in BOOLEAN :
          asm' = [asm EXCEPT !.pc = IF spawn_ok THEN "spawned" ELSE "failed"]
    /\ UNCHANGED <<handler_vars, cli>>

\* ------------------------------------------------------ client events
ClientStep(c, callback) ==
    /\ Len(c.socks) <= lim.socks
    /\ cli' = [c EXCEPT !.ev = callback]
    /\ UNCHANGED server_vars

\* Terminal.init() ends with connect()
TermInit ==
    /\ ~cli.inited
    /\ ClientStep(connect([cli EXCEPT !.inited = TRUE], "init"), "init")

\* the connection of socket i is established
SockOpen(i) ==
    /\ cli.socks[i].rs = "connecting"
    /\ ClientStep(onopen([cli EXCEPT !.socks[i].rs = "open"], i), "onopen")

\* the connection of socket i has ended: it failed, the server or the
\* network closed it, or a close() has completed
SockClosed(i) ==
    /\ cli.socks[i].rs \in {"connecting", "open", "closing"}
    /\ LET c == [cli EXCEPT !.socks[i].rs = "closed"]
           d == IF c.socks[i].onclose THEN onclose(c, i) ELSE c
       IN  ClientStep([d EXCEPT !.socks[i].spent =
                                    d.reconnectAttempts > maxRetries],
                      "close")

\* a terminal_output envelope arrives on socket i
SockMessage(i) ==
    /\ cli.socks[i].rs = "open"
    /\ cli.nmsgs < lim.msgs
    /\ \E data \in lim.chunks :
          ClientStep(onmessage([cli EXCEPT !.nmsgs = @ + 1,
                                          !.socks[i].recv = Append(@, data)],
                               i, data), "onmessage")

StableTimerFires(i) ==
    /\ <<"stable", i>> \in cli.timers
    /\ ClientStep(StableTimer([cli EXCEPT !.timers = @ \ {<<"stable", i>>}]),
                  "stable")

ReconnectTimerFires(i) ==
    /\ <<"reconnect", i>> \in cli.timers
    /\ ClientStep(ReconnectTimer([cli EXCEPT
                                     !.timers = @ \ {<<"reconnect", i>>}]),
                  "reconnect")

ConflictTimerFires(i) ==
    /\ <<"conflict", i>> \in cli.timers
    /\ ClientStep(ConflictTimer([cli EXCEPT
                                    !.timers = @ \ {<<"conflict", i>>}]),
                  "conflict")

\* the periodic checkServerHealth finds the server; the terminal is among
\* getAllTerminals() once init() has run
HealthCheckOk ==
    /\ cli.inited
    /\ ClientStep(HealthOk(cli), "checkServerHealth")

\* the periodic checkServerHealth does not reach the server
HealthCheckFails ==
    /\ cli.inited
    /\ ClientStep(HealthFail(cli), "checkServerHealth")

\* the user clicks the terminal's reconnect button; the button of a removed
\* terminal is gone and the terminal is not among getActiveTerminals()
Restart ==
    /\ cli.inited
    /\ ~cli.disposed
    /\ ClientStep(restartTerminal(cli), "restartTerminal")

\* removeTerminal(terminalId) of this terminal, while its project has another
RemoveTerminal ==
    /\ cli.inited
    /\ ~cli.disposed
    /\ ClientStep(dispose(cli), "dispose")

\* ------------------------------------------------------- specifications
\* every kind of event, two connections
Init ==
    InitWith([conns |-> MaxConns, closes |-> MaxCloses, reads |-> MaxReads,
              files |-> MaxFiles, writes |-> MaxWrites, exits |-> MaxExits,
              spawn_fails |-> MaxSpawnFails,
              ids |-> SubSeq(Ids, 1, 2), indices |-> {0},
              agents |-> AgentKinds, roles |-> Roles])

Next ==
    \E c \in Conns :
        \/ Connect(c)
        \/ ClientClose(c)
        \/ Entered(c)
        \/ ReplaceResume(c)
        \/ StartFailedReturn(c)
        \/ RecvDisconnect(c)
        \/ RecvInput(c)
        \/ WriteDone(c)
        \/ RecvPing(c)
        \/ RecvImage(c)
        \/ ImageWriteDone(c)
        \/ FinalResume(c)
        \/ ReadLoop(c)
        \/ ReadHint(c)
        \/ ReadCancelled(c)
        \/ ProcessExit(c)

Spec == Init /\ [][Next]_vars

\* connections racing for one identifier: the clients connect and disconnect,
\* the processes stay alive and silent
InitRace ==
    InitWith([conns |-> RaceConns, closes |-> RaceCloses, reads |-> 0,
              files |-> 0, writes |-> 0, exits |-> 0, spawn_fails |-> 0,
              ids |-> SubSeq(Ids, 1, 2), indices |-> {0},
              agents |-> {"claude"}, roles |-> {"General"}])

NextRace ==
    \E c \in Conns :
        \/ Connect(c)
        \/ ClientClose(c)
        \/ ReplaceResume(c)
        \/ RecvDisconnect(c)
        \/ FinalResume(c)
        \/ ReadCancelled(c)

SpecRace == InitRace /\ [][NextRace]_vars

\* sessions stopped more than once: replaced, then torn down by their handler
InitStop ==
    InitWith([conns |-> StopConns, closes |-> StopCloses, reads |-> 0,
              files |-> StopFiles, writes |-> 1, exits |-> StopExits,
              spawn_fails |-> 0,
              ids |-> SubSeq(Ids, 1, 1), indices |-> {0},
              agents |-> {"claude"}, roles |-> {"General"}])

NextStop ==
    \E c \in Conns :
        \/ Connect(c)
        \/ ClientClose(c)
        \/ ReplaceResume(c)
        \/ RecvDisconnect(c)
        \/ RecvImage(c)
        \/ ImageWriteDone(c)
        \/ FinalResume(c)
        \/ ReadLoop(c)
        \/ ReadHint(c)
        \/ ReadCancelled(c)
        \/ ProcessExit(c)

SpecStop == InitStop /\ [][NextStop]_vars

\* the registry in use while connections come and go
InitBus ==
    InitWith([conns |-> BusConns, closes |-> BusCloses, reads |-> 0,
              files |-> 0, writes |-> 0, exits |-> 0, spawn_fails |-> 0,
              ids |-> Ids, indices |-> Indices,
              agents |-> {"claude"}, roles |-> {"General"}])

NextBus ==
    \/ BroadcastCall
    \/ BroadcastResume
    \/ SendDirectCall
    \/ \E c \in Conns :
          \/ Connect(c)
          \/ ClientClose(c)
          \/ ReplaceResume(c)
          \/ RecvDisconnect(c)
          \/ FinalResume(c)
          \/ ReadCancelled(c)

SpecBus == InitBus /\ [][NextBus]_vars

\* the registry while every handler comes to its end
InitRegistry ==
    InitWith([conns |-> RegistryConns, closes |-> RegistryCloses, reads |-> 0,
              files |-> 0, writes |-> 0, exits |-> 0, spawn_fails |-> 0,
              ids |-> SubSeq(Ids, 1, 2), indices |-> {0},
              agents |-> {"claude"}, roles |-> {"General"}])

SpecRegistry == InitRegistry /\ [][NextBus]_vars

\* the life of session objects under one identifier
InitLife ==
    InitWith([conns |-> LifeConns, closes |-> LifeCloses, reads |-> LifeReads,
              files |-> 0, writes |-> 0, exits |-> LifeExits,
              spawn_fails |-> LifeSpawnFails,
              ids |-> SubSeq(Ids, 1, 1), indices |-> {0},
              agents |-> {"claude"}, roles |-> {"General"}])

NextLife ==
    \E c \in Conns :
        \/ Connect(c)
        \/ ClientClose(c)
        \/ ReplaceResume(c)
        \/ StartFailedReturn(c)
        \/ RecvDisconnect(c)
        \/ FinalResume(c)
        \/ ReadLoop(c)
        \/ ReadHint(c)
        \/ ReadCancelled(c)
        \/ ProcessExit(c)

SpecLife == InitLife /\ [][NextLife]_vars

\* shut-down-all while connections come and go
InitCleanup ==
    InitWith([conns |-> CleanConns, closes |-> CleanCloses, reads |-> 0,
              files |-> 0, writes |-> 0, exits |-> 0, spawn_fails |-> 0,
              ids |-> SubSeq(Ids, 1, 2), indices |-> {0},
              agents |-> {"claude"}, roles |-> {"General"}])

NextCleanup ==
    \/ CleanupCall
    \/ CleanupResume
    \/ \E c \in Conns :
          \/ Connect(c)
          \/ ClientClose(c)
          \/ ReplaceResume(c)
          \/ RecvDisconnect(c)
          \/ FinalResume(c)
          \/ ReadCancelled(c)

SpecCleanup == InitCleanup /\ [][NextCleanup]_vars

\* one terminal of the page: its sockets open and close, its timers fire,
\* the health check runs and the user reconnects; no output arrives
InitRetry ==
    InitWith([socks |-> RetrySocks, msgs |-> 0, chunks |-> {}])

NextRetry ==
    \/ TermInit
    \/ \E i \in 1..Len(cli.socks) :
          \/ SockOpen(i)
          \/ SockClosed(i)
          \/ StableTimerFires(i)
          \/ ReconnectTimerFires(i)
    \/ HealthCheckOk
    \/ HealthCheckFails
    \/ Restart

SpecRetry == InitRetry /\ [][NextRetry]_vars

\* one terminal of the page: its sockets open and close, its timers fire
\* and the user reconnects; serverStatus does not change
InitManual ==
    InitWith([socks |-> ManualSocks, msgs |-> 0, chunks |-> {}])

NextManual ==
    \/ TermInit
    \/ \E i \in 1..Len(cli.socks) :
          \/ SockOpen(i)
          \/ SockClosed(i)
          \/ StableTimerFires(i)
          \/ ReconnectTimerFires(i)
    \/ Restart

SpecManual == InitManual /\ [][NextManual]_vars

\* one terminal of the page and the output it receives
InitConflict ==
    InitWith([socks |-> ConflictSocks, msgs |-> ConflictMsgs,
              chunks |-> Chunks])

NextConflict ==
    \/ TermInit
    \/ \E i \in 1..Len(cli.socks) :
          \/ SockOpen(i)
          \/ SockClosed(i)
          \/ SockMessage(i)
          \/ StableTimerFires(i)
          \/ ReconnectTimerFires(i)
          \/ ConflictTimerFires(i)
    \/ HealthCheckOk
    \/ HealthCheckFails
    \/ Restart

SpecConflict == InitConflict /\ [][NextConflict]_vars

\* one terminal of the page whose process reports a session conflict
InitStable ==
    InitWith([socks |-> StableSocks, msgs |-> StableMsgs,
              chunks |-> {Concat(ChunkAlready, ChunkInUse)}])

NextStable ==
    \/ TermInit
    \/ \E i \in 1..Len(cli.socks) :
          \/ SockOpen(i)
          \/ SockClosed(i)
          \/ SockMessage(i)
          \/ StableTimerFires(i)
          \/ ReconnectTimerFires(i)
          \/ ConflictTimerFires(i)

SpecStable == InitStable /\ [][NextStable]_vars

\* one terminal of the page whose process sends long output
InitBuffer ==
    InitWith([socks |-> BufferSocks, msgs |-> BufferMsgs,
              chunks |-> BufferChunks])

NextBuffer ==
    \/ TermInit
    \/ \E i \in 1..Len(cli.socks) :
          \/ SockOpen(i)
          \/ SockClosed(i)
          \/ SockMessage(i)
          \/ StableTimerFires(i)
          \/ ReconnectTimerFires(i)
          \/ ConflictTimerFires(i)

SpecBuffer == InitBuffer /\ [][NextBuffer]_vars

\* one terminal of the page whose process sends large chunks that hold
\* the conflict phrase
InitLarge ==
    InitWith([socks |-> LargeSocks, msgs |-> LargeMsgs,
              chunks |-> LargeChunks])

NextLarge ==
    \/ TermInit
    \/ \E i \in 1..Len(cli.socks) :
          \/ SockOpen(i)
          \/ SockClosed(i)
          \/ SockMessage(i)
          \/ StableTimerFires(i)
          \/ ReconnectTimerFires(i)
          \/ ConflictTimerFires(i)

SpecLarge == InitLarge /\ [][NextLarge]_vars

\* one terminal of the page, removed at any point of its life
InitDispose ==
    InitWith([socks |-> DisposeSocks, msgs |-> DisposeMsgs,
              chunks |-> {ChunkConflict, ChunkText}])

NextDispose ==
    \/ TermInit
    \/ \E i \in 1..Len(cli.socks) :
          \/ SockOpen(i)
          \/ SockClosed(i)
          \/ SockMessage(i)
          \/ StableTimerFires(i)
          \/ ReconnectTimerFires(i)
          \/ ConflictTimerFires(i)
    \/ HealthCheckOk
    \/ HealthCheckFails
    \/ RemoveTerminal

SpecDispose == InitDispose /\ [][NextDispose]_vars

\* resize messages of every size, to a live and to a dead process
InitResize ==
    InitWith([conns |-> ResizeConns, closes |-> ResizeCloses, reads |-> 0,
              files |-> 0, writes |-> 0, exits |-> ResizeExits,
              spawn_fails |-> 0,
              ids |-> SubSeq(Ids, 1, 1), indices |-> {0},
              agents |-> {"claude"}, roles |-> {"General"}])

NextResize ==
    \E c \in Conns :
        \/ Connect(c)
        \/ ClientClose(c)
        \/ RecvDisconnect(c)
        \/ RecvResize(c)
        \/ FinalResume(c)
        \/ ReadLoop(c)
        \/ ReadHint(c)
        \/ ReadCancelled(c)
        \/ ProcessExit(c)

SpecResize == InitResize /\ [][NextResize]_vars

\* the read loop of a session whose process produces output and exits
InitRead ==
    InitWith([conns |-> ReadConns, closes |-> ReadCloses,
              reads |-> ReadChunks, files |-> 0, writes |-> 0,
              exits |-> ReadExits, spawn_fails |-> 0,
              ids |-> SubSeq(Ids, 1, 1), indices |-> {0},
              agents |-> {"claude"}, roles |-> {"General"}])

NextRead ==
    \E c \in Conns :
        \/ Connect(c)
        \/ ClientClose(c)
        \/ RecvDisconnect(c)
        \/ FinalResume(c)
        \/ ReadBegin(c)
        \/ ReadReturns(c)
        \/ ReadWake(c)
        \/ ReadAbandoned(c)
        \/ ReadHint(c)
        \/ ReadCancelled(c)
        \/ ProcessExit(c)

SpecRead == InitRead /\ [][NextRead]_vars

\* ping messages to sessions whose process is alive, has exited, was killed
InitPing ==
    InitWith([conns |-> PingConns, closes |-> PingCloses,
              reads |-> PingReads, files |-> 0, writes |-> 0,
              exits |-> PingExits, spawn_fails |-> 0,
              ids |-> SubSeq(Ids, 1, 1), indices |-> {0},
              agents |-> {"claude"}, roles |-> {"General"}])

NextPing ==
    \E c \in Conns :
        \/ Connect(c)
        \/ ClientClose(c)
        \/ ReplaceResume(c)
        \/ RecvDisconnect(c)
        \/ RecvPing(c)
        \/ FinalResume(c)
        \/ ReadLoop(c)
        \/ ReadHint(c)
        \/ ReadCancelled(c)
        \/ ProcessExit(c)

SpecPing == InitPing /\ [][NextPing]_vars

\* the read loop, suspension by suspension, of sessions whose process
\* exits or that a later connection replaces
InitHint ==
    InitWith([conns |-> HintConns, closes |-> HintCloses,
              reads |-> HintChunks, files |-> 0, writes |-> 0,
              exits |-> HintExits, spawn_fails |-> 0,
              ids |-> SubSeq(Ids, 1, 1), indices |-> {0},
              agents |-> {"claude"}, roles |-> {"General"}])

NextHint ==
    \E c \in Conns :
        \/ Connect(c)
        \/ ClientClose(c)
        \/ ReplaceResume(c)
        \/ RecvDisconnect(c)
        \/ FinalResume(c)
        \/ ReadBegin(c)
        \/ ReadReturns(c)
        \/ ReadWake(c)
        \/ ReadAbandoned(c)
        \/ ReadHint(c)
        \/ ReadCancelled(c)
        \/ ProcessExit(c)

SpecHint == InitHint /\ [][NextHint]_vars

\* image messages of every kind, to claude and to the shell
InitImage ==
    InitWith([conns |-> ImageConns, closes |-> ImageCloses, reads |-> 0,
              files |-> ImageFiles, writes |-> 1, exits |-> ImageExits,
              spawn_fails |-> 0,
              ids |-> SubSeq(Ids, 1, 1), indices |-> {0},
              agents |-> AgentKinds, roles |-> {"General"}])

NextImage ==
    \E c \in Conns :
        \/ Connect(c)
        \/ ClientClose(c)
        \/ RecvDisconnect(c)
        \/ RecvImage(c)
        \/ ImageWriteDone(c)
        \/ FinalResume(c)
        \/ ReadLoop(c)
        \/ ReadHint(c)
        \/ ReadCancelled(c)
        \/ ProcessExit(c)

SpecImage == InitImage /\ [][NextImage]_vars

\* sessions constructed with every kind of identifier, agent and prompt
InitCommand == InitWith([ids |-> SessionIdInputs])

NextCommand ==
    \/ NewSession
    \/ AssembleCommand
    \/ SpawnCommand

SpecCommand == InitCommand /\ [][NextCommand]_vars

\* ============================================================== properties
\* the sessions of identifier id whose process is alive
LiveProcesses(id) == {s \in Conns : proc[s] = "alive" /\ req[s].id = id}

\* C1: in every reachable state at most one spawned process is alive per
\* session identifier, whatever the interleaving of the handlers for it
C1_OneLiveProcessPerId ==
    \A k \in 1..Len(Ids) : Cardinality(LiveProcesses(Ids[k])) <= 1

\* C2: the registry holds one transport per identifier, and a step that
\* registers a transport for an identifier that had another one registered
\* leaves the previous transport closed
C2_RegisterClosesPrevious ==
    [][\A k \in 1..Len(Ids) :
          LET id == Ids[k] IN
          /\ Cardinality({i \in 1..Len(sessions') :
                             sessions'[i].live /\ sessions'[i].k = id}) <= 1
          /\ (/\ DictHas(sessions, id)
              /\ DictHas(sessions', id)
              /\ DictGet(sessions', id) # DictGet(sessions, id))
             => ws'[DictGet(sessions, id)] = "closed"]_vars

\* the temp files of session s that exist
FilesOnDisk(s) == {f \in disk : f[1] = s}

\* C3: once the handler of a connection has ended, for whatever reason, its
\* identifier is not registered to its transport any more and the session it
\* created is stopped: its process is not alive and none of its temp files
\* exists
C3_HandlerEndReclaims ==
    \A c \in Conns :
        hpc[c] = "done" =>
            /\ ~(DictHas(sessions, req[c].id) /\ DictGet(sessions, req[c].id) = c)
            /\ proc[c] # "alive"
            /\ FilesOnDisk(c) = {}

\* C8: once stop() has returned on a session, no temp file the session ever
\* created exists, a file whose write failed part-way included
C8_NoTempFileAfterStop ==
    \A s \in Conns : stop_returned[s] >= 1 => FilesOnDisk(s) = {}

\* a step in which a stop() of session s returns after an earlier one had
SecondStop(s) == stop_returned[s] >= 1 /\ stop_returned'[s] > stop_returned[s]

\* C9: a stop() of a session on which stop() has returned before changes
\* nothing of the session, does not terminate the process again, removes no
\* file that is gone already (and none at all when nothing was staged since),
\* and sends no terminal_closed envelope
C9_StopIdempotent ==
    [][\A s \in Conns :
          SecondStop(s) =>
              /\ running'[s] = running[s]
              /\ pty'[s] = pty[s]
              /\ proc'[s] = proc[s]
              /\ read_task'[s] = read_task[s]
              /\ cancelled'[s] = cancelled[s]
              /\ read_count'[s] = read_count[s]
              /\ temp_files'[s] = {}
              /\ temp_files[s] = {} => FilesOnDisk(s)' = FilesOnDisk(s)
              /\ \A i \in 1..Len(out') :
                    /\ out'[i] # <<"terminate", s, 0>>
                    /\ out'[i] # <<"send", s, "terminal_closed">>
                    /\ (out'[i][1] = "remove" /\ out'[i][2] = s)
                       => /\ <<s, out'[i][3]>> \in disk
                          /\ \A j \in 1..Len(out') : out'[j] = out'[i] => j = i
      ]_vars

\* C9 witness: a session with a staged file was stopped twice
C9_Witness ==
    \E s \in Conns :
        stop_returned[s] >= 2 /\ nfiles[s] >= 1 /\ proc[s] = "killed"

\* the envelopes a session sends through its transport
SessionEnvelopes == {"terminal_started", "terminal_output", "terminal_closed",
                     "hint", "image_added", "error"}

\* C10: a session on which stop() has returned sends no further envelope
C10_SilentAfterStop ==
    [][\A i \in 1..Len(out') :
          (out'[i][1] = "send" /\ out'[i][3] \in SessionEnvelopes)
          => stop_returned[out'[i][2]] = 0]_vars

\* the <<session_id, transport>> pairs broadcast has sent to, or failed to
Tried == {<<bc.tried[i][1], bc.tried[i][2]>> : i \in 1..Len(bc.tried)}

\* the registry pairs of the time broadcast was called, the sender's excepted
BroadcastTargets == {p \in Registered(bc.reg) : p[1] # bc.sender}

\* C4: broadcast never sends to the sender's identifier or transport; a
\* broadcast that returns with the registry as it was when called has tried
\* every other registered transport, failed sends or not; and a broadcast
\* raises only when the registry has changed under it, never for a failed send
C4_BroadcastIsolatesFailures ==
    /\ \A p \in Tried : p[1] # bc.sender /\ req[p[2]].id # bc.sender
    /\ (bc.pc = "returned" /\ sessions = bc.reg) => Tried = BroadcastTargets
    /\ bc.pc = "raised" => sessions # bc.reg

\* C4 witness: a broadcast returned after a failed send and a later delivery
C4_Witness ==
    /\ bc.pc = "returned"
    /\ sessions = bc.reg
    /\ \E i, j \in 1..Len(bc.tried) : i < j /\ ~bc.tried[i][3] /\ bc.tried[j][3]

\* C5: a broadcast works on the registry as it was when called: it is never
\* aborted, and when it returns it has tried exactly the targets registered
\* then
C5_BroadcastUsesSnapshot ==
    /\ bc.pc # "raised"
    /\ bc.pc = "returned" => Tried = BroadcastTargets

\* the sessions whose metadata has the index of the send_direct call a step
\* makes, as <<session_id, transport>>
DirectMatches ==
    {<<agent_info[i].k, DictGet(sessions, agent_info[i].k)>> :
        i \in {j \in 1..Len(agent_info) :
                  /\ agent_info[j].live
                  /\ agent_info[j].v.index = sd'.index
                  /\ DictHas(sessions, agent_info[j].k)}}

\* C6: send_direct returns False and sends nothing when no registered
\* metadata has the index; when exactly one session has it (and its transport
\* takes the send) it returns True and sends one inject_input envelope, to
\* that session's transport
C6_SendDirectByIndex ==
    [][sd'.result # "none" =>
          /\ DirectMatches = {} => sd'.result = "False" /\ out' = <<>>
          /\ \A p \in DirectMatches :
                (DirectMatches = {p} /\ ws[p[2]] = "open")
                => /\ sd'.result = "True"
                   /\ out' = << <<"send", p[2], "inject_input">> >>]_vars

\* C6 witness: send_direct passed over a session of another index and delivered
C6_Witness ==
    /\ sd.result = "True"
    /\ \E i, j \in 1..Len(agent_info) :
          /\ i < j
          /\ agent_info[i].live /\ agent_info[i].v.index # sd.index
          /\ agent_info[j].live /\ agent_info[j].v.index = sd.index
          /\ DictHas(sessions, agent_info[j].k)
          /\ out = << <<"send", DictGet(sessions, agent_info[j].k),
                        "inject_input">> >>

\* C7: when the send to the target fails, send_direct does not raise: it
\* reports failure and has unregistered the target
C7_SendDirectFailureUnregisters ==
    [][sd'.result # "none" =>
          \A p \in DirectMatches :
              (DirectMatches = {p} /\ ws[p[2]] = "closed")
              => sd'.result = "False" /\ ~DictHas(sessions', p[1])]_vars

\* session s has reached Stopped: a stop() returned on it, or its spawn failed
Stopped(s) == stop_returned[s] >= 1 \/ proc[s] = "failed"

\* the session handler c finds in the table for the identifier it serves in
\* the step that stores its own session, or NoConn
FoundInTable(c) ==
    IF hpc[c] = "replace_wait" THEN awaiting[c]
    ELSE IF DictHas(terminal_sessions, req'[c].id)
         THEN DictGet(terminal_sessions, req'[c].id)
         ELSE NoConn

\* handler c stores its session in the table in this step
StoresSession(c) ==
    /\ ~(DictHas(terminal_sessions, req'[c].id)
         /\ DictGet(terminal_sessions, req'[c].id) = c)
    /\ DictHas(terminal_sessions', req'[c].id)
    /\ DictGet(terminal_sessions', req'[c].id) = c

\* C11: a session on which stop() has completed (or whose spawn failed) owns
\* no live process and no running read loop ever after; and a handler that
\* finds a session in the table for its identifier never starts that session
\* again: it stores a new object, after stop() has returned on the one it found
C11_StoppedIsTerminal ==
    [][/\ \A s \in Conns :
             Stopped(s)' => /\ proc'[s] # "alive"
                            /\ read_task'[s] \in {"None", "done"}
                            /\ ~running'[s]
       /\ \A s \in Conns : Stopped(s) => Stopped(s)'
       /\ \A c \in Conns :
             StoresSession(c) =>
                 /\ proc[c] = "unspawned" /\ read_task[c] = "None"
                 /\ FoundInTable(c) # NoConn =>
                        /\ FoundInTable(c) # c
                        /\ stop_returned'[FoundInTable(c)] >= 1]_vars

\* C11 witness: a session was stopped for a restart under its identifier and
\* another object runs in its place
C11_Witness ==
    \E s, c \in Conns :
        /\ s # c /\ req[s].id = req[c].id
        /\ stop_returned[s] >= 1 /\ proc[s] = "killed"
        /\ proc[c] = "alive" /\ running[c]
        /\ DictHas(terminal_sessions, req[c].id)
        /\ DictGet(terminal_sessions, req[c].id) = c

\* the terminal_closed envelopes the step sends to the transport of session s
ClosedSent(s) ==
    {i \in 1..Len(out') : out'[i] = <<"send", s, "terminal_closed">>}

\* C12: when the read loop of a session ends, for whatever reason, one
\* terminal_closed envelope is sent to the client (whose transport is open),
\* and no session sends a second one
C12_ClosedOnLoopExit ==
    [][\A s \in Conns :
          /\ (read_task[s] = "loop" /\ read_task'[s] # "loop" /\ ws[s] = "open")
             => Cardinality(ClosedSent(s)) = 1
          /\ ClosedSent(s) # {}
             => /\ Cardinality(ClosedSent(s)) = 1
                /\ read_task[s] = "loop" /\ read_task'[s] # "loop"
          /\ read_task[s] \notin {"None", "loop"} => read_task'[s] # "loop"
      ]_vars

\* the session handler c created is the table's session for its identifier
InTable(c) ==
    DictHas(terminal_sessions, req[c].id) /\ DictGet(terminal_sessions, req[c].id) = c

\* C13: when the spawn fails, start() sends one error envelope (to a client
\* that is there), the session has no process and no read loop and is never
\* spawned again, and once the handler has returned the failed session is not
\* the table's session for its identifier
C13_SpawnFailureDiscards ==
    [][\A c \in Conns :
          /\ (proc[c] # "failed" /\ proc'[c] = "failed")
             => /\ ws'[c] = "open" =>
                    Cardinality({i \in 1..Len(out') :
                                    out'[i] = <<"send", c, "error">>}) = 1
                /\ read_task'[c] = "None" /\ ~pty'[c] /\ ~running'[c]
          /\ proc[c] = "failed" => proc'[c] = "failed"
          /\ (proc'[c] = "failed" /\ hpc'[c] = "done") => ~InTable(c)'
      ]_vars

\* C14: when cleanup_all_sessions completes, no session whose process was
\* alive when it was called has a live process or a temp file left, the
\* session table is empty, and so are the registry's two maps
C14_CleanupLeavesNothing ==
    [][(cl.pc # "done" /\ cl'.pc = "done")
       => /\ \A s \in cl'.live : proc'[s] # "alive" /\ FilesOnDisk(s)' = {}
          /\ DictLen(terminal_sessions') = 0
          /\ DictLen(sessions') = 0
          /\ DictLen(agent_info') = 0]_vars

\* the automatic retries are used up: the close handler has counted more
\* closes than maxRetries, the terminal's socket is closed and no reconnect
\* is scheduled
Exhausted ==
    /\ cli.reconnectAttempts > maxRetries
    /\ cli.ws # 0
    /\ cli.socks[cli.ws].rs = "closed"
    /\ cli.timers = {}

\* the socket a step creates, 0 if it creates none
Created == IF Len(cli'.socks) > Len(cli.socks) THEN Len(cli'.socks) ELSE 0

\* C15: once three automatic reconnects in a row have ended in a close
\* before the stability window, no path of the client (close handler, timer,
\* health check) opens another connection; only the manual reconnect does
C15_NoFourthAutomaticAttempt ==
    [][(Exhausted /\ Created # 0) => cli'.socks[Created].by = "manual"]_vars

\* socket i closes in this step
Closes(i) ==
    /\ i \in 1..Len(cli.socks)
    /\ cli.socks[i].rs # "closed"
    /\ cli'.socks[i].rs = "closed"

\* C16: restartTerminal called when the automatic retries are used up sets
\* the retry counter to zero and opens a connection; from a counter of zero
\* the next three closes each schedule a reconnect, and the scheduled
\* reconnect opens a connection
C16_ManualReconnectRestoresBudget ==
    [][/\ (Exhausted /\ cli'.ev = "restartTerminal") =>
             /\ cli'.reconnectAttempts = 0
             /\ Created # 0
             /\ cli'.ws = Created
             /\ cli'.socks[Created].rs = "connecting"
       /\ \A i \in 1..Len(cli.socks) :
             (/\ Closes(i)
              /\ cli.ws = i
              /\ cli.socks[i].onclose
              /\ ~cli.handlingSessionConflict
              /\ cli.reconnectAttempts < maxRetries) =>
                 /\ cli'.reconnectAttempts = cli.reconnectAttempts + 1
                 /\ <<"reconnect", i>> \in cli'.timers
       /\ (cli'.ev = "reconnect" /\ cli.socks[cli.ws].rs = "closed") =>
             /\ Created # 0
             /\ cli'.socks[Created].sid = cli.sessionId]_vars

\* after the retries were used up, a manual reconnect and then three more
\* automatic reconnects, the last of them closed
C16_Witness ==
    \E m \in 2..Len(cli.socks) :
        /\ cli.socks[m].by = "manual"
        /\ cli.socks[m - 1].spent
        /\ ~cli.socks[m].spent
        /\ Len(cli.socks) = m + maxRetries
        /\ \A k \in (m + 1)..(m + maxRetries) :
              /\ cli.socks[k].by = "reconnect"
              /\ cli.socks[k].rs = "closed"
        /\ cli.reconnectAttempts > maxRetries

\* the latest two chunks delivered to socket i are "already " and "in use"
SplitPhrase(c, i) ==
    LET r == c.socks[i].recv
    IN  /\ Len(r) >= 2
        /\ r[Len(r) - 1] = ChunkAlready
        /\ r[Len(r)] = ChunkInUse

\* socket i receives a chunk in this step
Receives(i) ==
    /\ i \in 1..Len(cli.socks)
    /\ cli'.socks[i].recv # cli.socks[i].recv

\* C17: when "already " and then "in use" are delivered to one socket, the
\* second delivery starts the conflict recovery: the session identifier is
\* replaced, once, and the socket is closed; when that socket's close event
\* comes, the retry counter stays as it is and no reconnect is scheduled.
\* Nothing but the delivery of a chunk replaces the session identifier.
C17_SplitConflictDetectedOnce ==
    [][/\ \A i \in 1..Len(cli.socks) :
             /\ (Receives(i) /\ SplitPhrase(cli', i)) =>
                    /\ cli'.handlingSessionConflict
                    /\ cli'.sessionId = cli.sessionId + 1
                    /\ cli'.outputBuffer = <<>>
                    /\ cli'.socks[i].rs = "closing"
             /\ (Closes(i) /\ SplitPhrase(cli, i)) =>
                    /\ cli'.reconnectAttempts = cli.reconnectAttempts
                    /\ <<"reconnect", i>> \notin cli'.timers
       /\ cli'.sessionId # cli.sessionId =>
             /\ cli'.ev = "onmessage"
             /\ cli'.sessionId = cli.sessionId + 1]_vars

\* the phrase came in two chunks on the first socket, which has closed since
C17_Witness ==
    /\ Len(cli.socks) >= 1
    /\ cli.socks[1].recv = <<ChunkAlready, ChunkInUse>>
    /\ cli.socks[1].rs = "closed"
    /\ cli.sessionId = 1
    /\ cli.reconnectAttempts = 0

\* the identifier is a version 4 UUID
IsUuid4(s) ==
    /\ s.head = ""
    /\ s.lens = Uuid4Lens
    /\ s.hex
    /\ s.ver = "4"
    /\ s.var \in {"8", "9", "a", "b", "A", "B"}
    /\ s.tail = ""

\* the command line has the resume flag / the persona flag
HasSessionFlag(cmd) == \E i \in 1..Len(cmd) : cmd[i].part = "session_cmd"
HasPromptFlag(cmd) == \E i \in 1..Len(cmd) : cmd[i].part = "system_prompt_cmd"

\* C18: for an agent with a resume-flag template, the command start() hands
\* to the spawn has the resume flag, carrying the session identifier, exactly
\* when the identifier is a version 4 UUID
C18_ResumeFlagIffUuid4 ==
    (asm.pc \in {"built", "spawned", "failed"} /\ session_cmd(asm.agent_type))
        => /\ HasSessionFlag(asm.cmd) <=> IsUuid4(asm.session_id)
           /\ \A i \in 1..Len(asm.cmd) :
                 asm.cmd[i].part = "session_cmd" =>
                     asm.cmd[i].arg = asm.session_id
           /\ \A i \in 1..Len(asm.cmd) :
                 asm.cmd[i].part = "session_cmd" => IsUuid4(asm.cmd[i].arg)

\* C19: a prompt with a character of the deny-list is never put into the
\* command line, and the spawn is still called; the persona flag is there
\* exactly when the agent has a persona-flag template and the role has a
\* non-empty prompt without such a character
C19_PersonaFlagOnlyForCleanPrompt ==
    LET p == ROLE_PROMPTS(asm.pm, asm.role)
        dirty == \E i \in 1..Len(p.text) : p.text[i] \in dangerous_chars
    IN  /\ asm.pc \in {"built", "spawned", "failed"} =>
              /\ dirty => ~HasPromptFlag(asm.cmd)
              /\ HasPromptFlag(asm.cmd) <=>
                     /\ system_prompt_cmd(asm.agent_type)
                     /\ p.str
                     /\ p.text # <<>>
                     /\ ~dirty
              /\ \A i \in 1..Len(asm.cmd) :
                     asm.cmd[i].part = "system_prompt_cmd" =>
                         \A k \in 1..Len(asm.cmd[i].arg) :
                             asm.cmd[i].arg[k] \notin dangerous_chars
        /\ asm.pc = "new" => ENABLED AssembleCommand
        /\ asm.pc = "built" => ENABLED SpawnCommand

\* a process was spawned for claude with a PM prompt that has a backtick
C19_Witness ==
    /\ asm.pc = "spawned"
    /\ asm.agent_type = "claude"
    /\ asm.role = "PM"
    /\ asm.pm = Str(<<"a", "BACKTICK", "b">>)
    /\ ~HasPromptFlag(asm.cmd)

\* the latest step called send_image of session c and the call rejected
\* the image: no add-image command, encoded or decoded size over the
\* limit, or malformed encoding
Rejected(c) ==
    /\ img'.session = c
    /\ img'.input # "none"
    /\ \/ ~add_image_cmd(req[c].agent)
       \/ img'.input \in {"base64_too_long", "base64_invalid", "too_large"}

C21_ResizeClamps ==
    [][\A c \in Conns : rz'.session = c =>
          /\ rz'.result \in {"applied", "logged", "skipped"}
          /\ rz'.result = "applied" =>
                winsize'[c] = <<Least(MaxRows, Max(MinRows, rz'.rows)),
                                Least(MaxCols, Max(MinCols, rz'.cols))>>
          /\ rz'.result # "applied" => winsize'[c] = winsize[c]
          /\ (pty[c] /\ proc[c] = "alive") => rz'.result # "skipped"
          /\ hpc'[c] = "recv"
          /\ running'[c] = running[c]
          /\ proc'[c] = proc[c]
          /\ out' = <<>>]_vars

\* resize(5, 1000) has just been applied as 10 rows and 400 columns
C21_Witness ==
    \E c \in Conns :
        /\ rz = [session |-> c, rows |-> 5, cols |-> 1000,
                 result |-> "applied"]
        /\ winsize[c] = <<10, 400>>

\* C22: write forwards the data only to a live process, and the call
\* returns to the receive loop whatever becomes of the write: the handler
\* does not leave its loop and the session is not stopped by it
C22_WriteNeverRaises ==
    [][\A c \in Conns :
          /\ (hpc[c] = "recv" /\ hpc'[c] = "write") =>
                 pty[c] /\ proc[c] = "alive"
          /\ (hpc[c] = "write" /\ hpc'[c] # "write") =>
                 /\ hpc'[c] = "recv"
                 /\ running'[c] = running[c]
                 /\ pty'[c] = pty[c]
                 /\ proc'[c] = proc[c]]_vars

\* C23: the output envelopes of a session carry the chunks in the order they
\* were read, every chunk at most once and none that was not read yet, and a
\* session never has two reads of its process in flight
C23_OutputInReadOrder ==
    \A s \in Conns :
        /\ rd[s].threads <= 1
        /\ \A i, j \in DOMAIN rd[s].sent :
               i < j => rd[s].sent[i] < rd[s].sent[j]
        /\ \A i \in DOMAIN rd[s].sent : rd[s].sent[i] < rd[s].next

\* two chunks were read and forwarded
C23_Witness ==
    \E s \in Conns : Len(rd[s].sent) >= 2 /\ read_count[s] >= 2

\* C24: when broadcast returns, every target whose send failed in it is in
\* neither dict of the registry any more, and every target whose send
\* succeeded is still in both
C24_BroadcastUnregistersDead ==
    bc.pc = "returned" =>
        \A i \in 1..Len(bc.tried) :
            IF bc.tried[i][3]
            THEN /\ DictHas(sessions, bc.tried[i][1])
                 /\ DictHas(agent_info, bc.tried[i][1])
            ELSE /\ ~DictHas(sessions, bc.tried[i][1])
                 /\ ~DictHas(agent_info, bc.tried[i][1])

\* the places of the registered metadata that has index n, in the order the
\* identifiers were registered
SharingIndex(n) ==
    {j \in 1..Len(agent_info) : agent_info[j].live /\ agent_info[j].v.index = n}

\* C25: when several registered sessions have the index of a send_direct
\* call, the call sends one inject_input envelope, to the transport of the
\* one registered first (when that transport takes the send), and nothing
\* to the others
C25_SendDirectFirstMatch ==
    [][sd'.result # "none" =>
          \A i \in SharingIndex(sd'.index) :
              (/\ Cardinality(SharingIndex(sd'.index)) >= 2
               /\ \A j \in SharingIndex(sd'.index) : i <= j
               /\ DictHas(sessions, agent_info[i].k)
               /\ ws[DictGet(sessions, agent_info[i].k)] = "open")
              => /\ sd'.result = "True"
                 /\ out' = << <<"send", DictGet(sessions, agent_info[i].k),
                                "inject_input">> >>]_vars

\* C25 witness: two registered sessions share the index of a send_direct
\* call, and the envelope went to the one registered first
C25_Witness ==
    /\ sd.result = "True"
    /\ \E i, j \in SharingIndex(sd.index) :
          /\ i < j
          /\ \A k \in SharingIndex(sd.index) : i <= k
          /\ DictHas(sessions, agent_info[j].k)
          /\ ws[DictGet(sessions, agent_info[j].k)] = "open"
          /\ out = << <<"send", DictGet(sessions, agent_info[i].k),
                        "inject_input">> >>

\* C26: the handler answers every ping message it takes from its transport
\* with one pong envelope on that transport and nothing else, whatever the
\* state of the process and of the read loop, and goes on receiving
C26_PingAnsweredOnce ==
    [][\A c \in Conns : pg' = c =>
          /\ out' = << <<"send", c, "pong">> >>
          /\ hpc'[c] = "recv"]_vars

\* C26 witness: a ping was answered after the process had exited and the
\* read loop had ended
C26_Witness ==
    \E c \in Conns :
        /\ pg = c
        /\ proc[c] = "exited"
        /\ read_task[c] = "done"
        /\ out = << <<"send", c, "pong">> >>

\* what a step does to session s outside its read task: its process is
\* terminated, its handle is released, one of its temp files is removed
Terminates(s) == \E i \in 1..Len(out') : out'[i] = <<"terminate", s, 0>>
Releases(s) == pty[s] /\ ~pty'[s]
Removes(s) ==
    \E i \in 1..Len(out') : out'[i][1] = "remove" /\ out'[i][2] = s

\* C27: stop() terminates the process, releases the handle and removes temp
\* files only when the read task has finished (or never existed): no step
\* does any of these to a session whose read task is still running, and the
\* session is then marked as not running
C27_StopWaitsForReadLoop ==
    [][\A s \in Conns :
          (Terminates(s) \/ Releases(s) \/ Removes(s)) =>
              /\ read_task[s] \in {"None", "done"}
              /\ read_task'[s] \in {"None", "done"}
              /\ ~running'[s]]_vars

\* C27 witness: a stop() that had cancelled the running read task has
\* terminated the process and removed a temp file after the task finished
C27_Witness ==
    \E s \in Conns :
        /\ cancelled[s]
        /\ read_task[s] = "done"
        /\ \E i, j \in 1..Len(out) :
              /\ out[i] = <<"terminate", s, 0>>
              /\ out[j][1] = "remove" /\ out[j][2] = s

\* the os.remove calls a step makes for file n of session s
RemovesOf(s, n) == {i \in 1..Len(out') : out'[i] = <<"remove", s, n>>}

\* C28: whatever stop() calls overlap on a session, its process is
\* terminated once (terminate is called on a live process only, which is
\* dead from then on) and each of its temp files is removed once (os.remove
\* is called for a file that exists, which is gone from then on); the step
\* that removes files leaves the session owning none
C28_OverlappingStopsActOnce ==
    [][\A s \in Conns :
          /\ Terminates(s) =>
                /\ proc[s] = "alive" /\ proc'[s] = "killed"
                /\ Cardinality({i \in 1..Len(out') :
                                    out'[i] = <<"terminate", s, 0>>}) = 1
          /\ proc[s] = "killed" => proc'[s] = "killed"
          /\ \A n \in 1..nfiles[s] :
                /\ RemovesOf(s, n) # {} =>
                      /\ <<s, n>> \in disk /\ <<s, n>> \notin disk'
                      /\ Cardinality(RemovesOf(s, n)) = 1
                      /\ temp_files'[s] = {}
                /\ (<<s, n>> \notin disk /\ nfiles'[s] = nfiles[s]) =>
                      <<s, n>> \notin disk']_vars

\* C28 witness: of two stop() calls suspended on one session, the first to
\* resume has terminated the process and removed a temp file, and the
\* second has yet to resume
C28_Witness ==
    \E s, c \in Conns :
        /\ awaiting[c] = s
        /\ stop_returned[s] = 1
        /\ \E i, j \in 1..Len(out) :
              /\ out[i] = <<"terminate", s, 0>>
              /\ out[j][1] = "remove" /\ out[j][2] = s

\* the stability timer that the onopen of socket i started fires in this step
StableFires(i) ==
    /\ cli'.ev = "stable"
    /\ <<"stable", i>> \in cli.timers
    /\ <<"stable", i>> \notin cli'.timers

\* C29: the stability timer of a connection sets the retry counter to zero
\* exactly when that same connection is the terminal's socket and still
\* open; the timer of a connection that has closed is gone; and the timer
\* an earlier connection started never resets the counter while a later
\* connection is the terminal's socket
C29_StableResetBySameConnection ==
    [][\A i \in 1..Len(cli.socks) :
          /\ StableFires(i) =>
                IF cli.ws = i /\ cli.socks[i].rs = "open"
                THEN cli'.reconnectAttempts = 0
                ELSE cli'.reconnectAttempts = cli.reconnectAttempts
          /\ (cli'.socks[i].rs = "closed" /\ cli.socks[i].onclose) =>
                <<"stable", i>> \notin cli'.timers]_vars

\* the onmessage of socket i detects a session conflict in this step
ConflictDetected(i) ==
    /\ cli'.ev = "onmessage"
    /\ <<"conflict", i>> \notin cli.timers
    /\ <<"conflict", i>> \in cli'.timers

\* the timer that the conflict on socket i started fires in this step
ConflictFires(i) ==
    /\ cli'.ev = "conflict"
    /\ <<"conflict", i>> \in cli.timers
    /\ <<"conflict", i>> \notin cli'.timers

\* this step creates a socket
Connects == Len(cli'.socks) > Len(cli.socks)

\* C30: the step that detects a conflict on a socket closes it with its
\* close handler removed, empties the rolling buffer, takes a new identifier
\* and opens nothing; a socket whose handler was removed closes without any
\* effect on the terminal; no connection is opened while the delay runs;
\* and when the delay is over exactly one connection is opened, under the
\* new identifier, with the retry counter at zero
C30_ConflictRecoveryOpensOne ==
    [][\A i \in 1..Len(cli.socks) :
          /\ ConflictDetected(i) =>
                /\ cli'.socks[i].rs = "closing" /\ ~cli'.socks[i].onclose
                /\ cli'.outputBuffer = <<>>
                /\ cli'.sessionId # cli.socks[i].sid
                /\ ~Connects
          /\ (cli.socks[i].rs # "closed" /\ cli'.socks[i].rs = "closed"
              /\ ~cli.socks[i].onclose) =>
                /\ cli'.reconnectAttempts = cli.reconnectAttempts
                /\ cli'.timers = cli.timers
                /\ ~Connects
          /\ (<<"conflict", i>> \in cli.timers /\ Connects) =>
                cli'.ev = "conflict"
          /\ ConflictFires(i) =>
                /\ Len(cli'.socks) = Len(cli.socks) + 1
                /\ cli'.ws = Len(cli'.socks)
                /\ cli'.socks[cli'.ws].sid = cli'.sessionId
                /\ cli'.socks[cli'.ws].sid # cli.socks[i].sid
                /\ cli'.reconnectAttempts = 0]_vars

\* text a is the end of text b
IsSuffix(a, b) ==
    /\ TextLen(a) <= TextLen(b)
    /\ Norm(a) = Norm(DropChars(b, TextLen(b) - TextLen(a)))

\* socket i receives an output chunk in this step
Receiving(i) == Len(cli'.socks[i].recv) > Len(cli.socks[i].recv)

\* C31: after every output envelope the rolling buffer holds at most 2000
\* characters and is the end of the output received since it was last
\* emptied; when the buffer with the new chunk is longer than 2000
\* characters it is cut to its last 1000, otherwise it is kept whole
C31_RollingBufferBounded ==
    [][\A i \in 1..Len(cli.socks) : Receiving(i) =>
          LET data == cli'.socks[i].recv[Len(cli'.socks[i].recv)]
              whole == Concat(cli.outputBuffer, data)
          IN  /\ TextLen(cli'.outputBuffer) <= BufferLimit
              /\ IsSuffix(cli'.outputBuffer, cli'.since)
              /\ ~ConflictDetected(i) =>
                    IF TextLen(whole) > BufferLimit
                    THEN /\ TextLen(cli'.outputBuffer) = BufferKeep
                         /\ IsSuffix(cli'.outputBuffer, whole)
                    ELSE cli'.outputBuffer = whole]_vars

\* C31 witness: the buffer was cut: it holds the last 1000 characters of
\* the longer output received since it was emptied, the end of one chunk
\* and the whole of the next
C31_Witness ==
    /\ cli.ev = "onmessage"
    /\ TextLen(cli.since) > BufferLimit
    /\ TextLen(cli.outputBuffer) = BufferKeep
    /\ Len(cli.outputBuffer) = 2

\* C32: a chunk of 4096 characters or more never starts the conflict
\* recovery, whatever it holds; and a small chunk starts it only when the
\* phrase is in the text received in small chunks since the buffer was last
\* emptied, never because of text that arrived inside a large chunk
C32_LargeChunksNotChecked ==
    [][\A i \in 1..Len(cli.socks) : (Receiving(i) /\ ConflictDetected(i)) =>
          LET data == cli'.socks[i].recv[Len(cli'.socks[i].recv)]
          IN  /\ TextLen(data) < SmallPacket
              /\ conflictPattern(stripAnsi(Concat(cli.small, data)))]_vars

\* where the read task stands: in its while loop, in the hint after it
InLoop == {"loop", "read", "sleep"}
InHint == {"hint1", "hint2", "hint3"}

\* the envelopes of a type the step sends to the transport of session s
Sent(s, type) == {i \in 1..Len(out') : out'[i] = <<"send", s, type>>}

\* C33: when the read loop of a session ends and the client is there, the
\* closed envelope is sent with the number of output envelopes the session
\* sent; when that number is zero the three envelopes of the hint follow
\* it, and when it is not, nothing follows; a hint is never sent otherwise
C33_HintIffNothingRead ==
    [][\A s \in Conns :
          /\ (read_task[s] \in InLoop /\ read_task'[s] \notin InLoop
              /\ ws[s] = "open") =>
                /\ Cardinality(Sent(s, "terminal_closed")) = 1
                /\ read_count'[s] = Len(rd'[s].sent)
                /\ read_task'[s] = IF read_count'[s] = 0 THEN "hint1"
                                   ELSE "done"
          /\ (read_task[s] \in InHint /\ read_task'[s] # read_task[s]
              /\ ws[s] = "open") =>
                Cardinality(Sent(s, "hint")) = 1
          /\ Sent(s, "hint") # {} =>
                read_task[s] \in InHint /\ read_count[s] = 0]_vars

\* dict e is dict d without key: the other keys keep their values and
\* their order
Without(d, e, key) ==
    /\ DictKeys(e) = DictKeys(d) \ {key}
    /\ \A k \in DictKeys(e) : DictGet(e, k) = DictGet(d, k)
    /\ \A k, l \in DictKeys(e) :
          DictIdx(e, k) < DictIdx(e, l) <=> DictIdx(d, k) < DictIdx(d, l)

\* C34: unregister(id) takes id out of the transports and out of the
\* metadata, leaves every other identifier as it was in both, changes
\* nothing when id is not registered, and returns
C34_UnregisterFrame ==
    [][un' # NoCall =>
          /\ Without(un'.sessions, sessions', un'.id)
          /\ Without(un'.agent_info, agent_info', un'.id)
          /\ ~DictHas(un'.sessions, un'.id) => sessions' = un'.sessions
          /\ ~DictHas(un'.agent_info, un'.id) =>
                agent_info' = un'.agent_info
          /\ \E c \in Conns : hpc[c] # "done" /\ hpc'[c] = "done"]_vars

\* C34 witness: a registered identifier was unregistered while another
\* stays registered
C34_Witness ==
    /\ un # NoCall
    /\ DictHas(un.sessions, un.id) /\ DictHas(un.agent_info, un.id)
    /\ ~DictHas(sessions, un.id) /\ ~DictHas(agent_info, un.id)
    /\ \E k \in DictKeys(sessions) : k # un.id /\ DictHas(agent_info, k)

\* an identifier that is not registered was unregistered
C34_NoOp == un # NoCall /\ ~DictHas(un.sessions, un.id)

\* connection c is the latest one accepted for its identifier
Newest(c) ==
    \A d \in Conns : (d > c /\ hpc[d] # "idle") => req[d].id # req[c].id

\* the handler of connection c is past start() and in its receive loop
Serving(c) == hpc[c] \in {"recv", "write", "image_write"}

\* C35: while the latest connection for an identifier is open and its
\* handler is serving it, the registry maps the identifier to its transport
\* and the session table maps it to its session; the teardown of an older
\* connection for the identifier takes neither entry away
C35_NewerConnectionKeepsEntries ==
    \A c \in Conns :
        (ws[c] = "open" /\ Serving(c) /\ Newest(c)) =>
            /\ DictHas(sessions, req[c].id)
            /\ DictGet(sessions, req[c].id) = c
            /\ DictHas(agent_info, req[c].id)
            /\ InTable(c)

\* C36: a disposed terminal opens no connection: no timer that was pending
\* at dispose() and no health-check pass creates a socket for it
C36_DisposedNeverConnects ==
    [][cli.disposed => Len(cli'.socks) = Len(cli.socks)]_vars

\* start() of session s ran in this step and did not succeed
StartFails(s) ==
    /\ proc[s] = "unspawned"
    /\ proc'[s] # "unspawned"
    /\ hpc'[s] # "recv"

\* C37: when start() of a session does not succeed, the session has no live
\* process and no read loop, also when the process was spawned and the send
\* of the started envelope failed
C37_FailedStartLeavesNothing ==
    [][\A s \in Conns :
          StartFails(s) =>
              /\ proc'[s] # "alive"
              /\ ~pty'[s]
              /\ ~running'[s]
              /\ read_task'[s] \in {"None", "done"}]_vars

\* C38: once a handler has returned, for whatever reason, the session table
\* holds no session that handler created
C38_TableOnlyWhileHandling ==
    \A c \in Conns : hpc[c] = "done" => ~InTable(c)

\* C39: the transports and the metadata of the registry have the same
\* identifiers, whatever was registered, unregistered, broadcast and sent
C39_RegistryKeySetsEqual == DictKeys(sessions) = DictKeys(agent_info)

\* C39 witness: a broadcast has returned, an identifier has been
\* unregistered and one is registered
C39_Witness ==
    /\ bc.pc = "returned"
    /\ Len(sessions) > DictLen(sessions)
    /\ DictLen(sessions) = 1
    /\ DictLen(agent_info) = 1

\* the envelopes the read loop of session s sends in the step
FromReadLoop(s) ==
    Sent(s, "terminal_output") \cup Sent(s, "terminal_closed")
        \cup Sent(s, "hint")

\* start() of session s runs in this step and succeeds
StartSucceeds(s) == proc[s] = "unspawned" /\ hpc'[s] = "recv"

\* C40: the started envelope of a session whose start succeeds is sent
\* before every envelope of its read loop: the step in which start()
\* succeeds sends it ahead of anything the read loop sends, and the read
\* loop sends nothing before start() has run
C40_StartedBeforeReadLoop ==
    [][\A s \in Conns :
          /\ StartSucceeds(s) =>
                /\ Cardinality(Sent(s, "terminal_started")) = 1
                /\ \A i \in FromReadLoop(s) :
                      \E j \in Sent(s, "terminal_started") : j < i
          /\ (FromReadLoop(s) # {} /\ ~StartSucceeds(s)) =>
                /\ proc[s] # "unspawned"
                /\ Sent(s, "terminal_started") = {}]_vars

\* C40 witness: the process of a started session exited before it was read
\* from, and the read loop has sent the closed envelope
C40_Witness ==
    \E s \in Conns :
        /\ hpc[s] = "recv"
        /\ read_count[s] = 0
        /\ out = << <<"send", s, "terminal_closed">> >>

====
